---- MODULE Spec2Model ----
(***************************************************************************)
(* EvalMate: the evaluation pipeline (model fallback, response            *)
(* normalisation, validation, task status), the payment functions (order   *)
(* creation, verification, webhook) and the checkout handler of the client.*)
(*                                                                         *)
(* Text is modelled as a sequence of lexemes.  A lexeme is one character   *)
(* the code's scans and regular expressions look at (a brace, a backtick,  *)
(* a quote, a backslash, a blank, a line feed, a bracket, a colon, a       *)
(* comma), or one whole word or number that they treat as opaque.          *)
(***************************************************************************)
EXTENDS Integers, Sequences, FiniteSets, TLC

VARIABLES
    tasks,     \* the tasks table: a sequence of rows, a row's id is its index
    runs,      \* the invocations of the evaluate-task function, with their locals
    norm,      \* one run of the response normaliser on one raw output
    calc,      \* one call of one of the program's functions: argument and value
    payments,  \* the payments table: a sequence of rows
    profiles,  \* the user_profiles table: the row of each account, if any
    verifies,  \* the invocations of the verify-razorpay-payment function
    hooks,     \* the invocations of the razorpay-webhook function
    orders,    \* the invocations of the create-razorpay-order function
    clients,   \* the checkout handlers of the payment form, one per account
    callers,   \* per row of tasks, the account whose request created it
    accounts,  \* auth.users: per account, its sign-up metadata once it signed up
    sessions   \* the browser tabs running the profile code of the site

shopVars == <<hooks, orders, clients>>
siteVars == <<accounts, sessions>>
payVars == <<payments, profiles, verifies, shopVars, callers, siteVars>>
vars ==
    <<tasks, runs, norm, calc, payments, profiles, verifies, hooks, orders, clients, callers,
      accounts, sessions>>

\* ------------------------------------------------------------------------
\* Lexemes
\* ------------------------------------------------------------------------

\* The backtick character (the lexer accepts no backtick in a string).
BT == "BT"
QUOTE == "\""
BSLASH == "\\"
NL == "\n"
SP == " "

\* The lexemes the regular expression class \s (and String.trim) matches.
Whitespace == {SP, NL}

\* The numbers a text of the model can spell.
NumRange == -3 .. 15

NumLexemes == {ToString(n) : n \in NumRange}

NumValue(tok) == CHOOSE n \in NumRange : ToString(n) = tok

Max(a, b) == IF a >= b THEN a ELSE b
Min(a, b) == IF a <= b THEN a ELSE b

MinOf(S) == CHOOSE x \in S : \A y \in S : x <= y
MaxOf(S) == CHOOSE x \in S : \A y \in S : x >= y

MinOrZero(S) == IF S = {} THEN 0 ELSE MinOf(S)

\* The first position in lo .. hi that satisfies P, 0 when there is none.
FirstIndex(P(_), lo, hi) == MinOrZero({j \in lo .. hi : P(j)})

\* The concatenation of a sequence of texts.
RECURSIVE Flatten(_)
Flatten(pieces) ==
    IF pieces = <<>> THEN <<>>
    ELSE IF Len(pieces) = 1 THEN pieces[1]
    ELSE LET mid == Len(pieces) \div 2 IN
         Flatten(SubSeq(pieces, 1, mid)) \o Flatten(SubSeq(pieces, mid + 1, Len(pieces)))

\* ------------------------------------------------------------------------
\* JSON values (what JSON.parse returns), all of one record shape
\* ------------------------------------------------------------------------

JValue(t, n, s, a, o) == [t |-> t, n |-> n, s |-> s, a |-> a, o |-> o]

JUndefined == JValue("undefined", 0, <<>>, <<>>, <<>>)
JNull == JValue("null", 0, <<>>, <<>>, <<>>)
JBool(b) == JValue("boolean", IF b THEN 1 ELSE 0, <<>>, <<>>, <<>>)
JNum(n) == JValue("number", n, <<>>, <<>>, <<>>)
JStr(s) == JValue("string", 0, s, <<>>, <<>>)
JArr(a) == JValue("array", 0, <<>>, a, <<>>)
JObj(o) == JValue("object", 0, <<>>, <<>>, o)

\* v.key and v?.key of JavaScript, for a value that is not null or undefined.
Prop(v, key) ==
    IF v.t = "object" /\ key \in DOMAIN v.o THEN v.o[key] ELSE JUndefined

\* o with o[key] = val (a later duplicate key wins, as in JSON.parse).
WithProp(o, key, val) ==
    [k \in (DOMAIN o) \cup {key} |-> IF k = key THEN val ELSE o[k]]

\* ------------------------------------------------------------------------
\* JSON.stringify of a string, JSON.parse of a text
\* ------------------------------------------------------------------------

EscapeChars(s) ==
    Flatten([k \in 1 .. Len(s) |->
               IF s[k] = QUOTE THEN <<BSLASH, QUOTE>>
               ELSE IF s[k] = BSLASH THEN <<BSLASH, BSLASH>>
               ELSE IF s[k] = NL THEN <<BSLASH, "n">>
               ELSE <<s[k]>>])

JSONStringify(s) == <<QUOTE>> \o EscapeChars(s) \o <<QUOTE>>

ParseFail == [ok |-> FALSE, val |-> JUndefined, next |-> 0]
ParseOk(v, i) == [ok |-> TRUE, val |-> v, next |-> i]

\* The first position at or after i that holds no blank.
SkipWs(s, i) ==
    MinOf({j \in i .. Len(s) : s[j] \notin Whitespace} \cup {Max(i, Len(s) + 1)})

\* The number of backslashes that end right before position k of a string
\* literal whose first character is at position i.
BackslashRun(s, k, i) ==
    (k - 1) - MaxOf({p \in i .. (k - 1) : s[p] # BSLASH} \cup {i - 1})

\* The character at k follows an escaping backslash.
Escaped(s, k, i) == BackslashRun(s, k, i) % 2 = 1

\* The characters position k of a string literal stands for.
UnescapeAt(s, k, i) ==
    IF Escaped(s, k, i) THEN (IF s[k] = "n" THEN <<NL>> ELSE <<s[k]>>)
    ELSE IF s[k] = BSLASH THEN <<>>
    ELSE <<s[k]>>

\* The string literal that starts at i and whose closing quote is at `close`
\* (0: there is none): \", \\ and \n are the escapes, and a raw line feed is
\* an error.
StringLiteral(s, i, close) ==
    IF \/ close = 0
       \/ \E k \in i .. (close - 1) :
             \/ Escaped(s, k, i) /\ s[k] \notin {QUOTE, BSLASH, "n"}
             \/ ~Escaped(s, k, i) /\ s[k] = NL
    THEN ParseFail
    ELSE ParseOk(JStr(Flatten([d \in 1 .. (close - i) |-> UnescapeAt(s, i + d - 1, i)])),
                 close + 1)

\* The string literal whose first character is at position i: it runs up to
\* the first quote that is not escaped.
ParseChars(s, i) ==
    StringLiteral(s, i,
        FirstIndex(LAMBDA k : s[k] = QUOTE /\ ~Escaped(s, k, i), i, Len(s)))

RECURSIVE ParseValue(_, _), ParseValueAt(_, _), ParseObjectAt(_, _), ParseArrayAt(_, _)
RECURSIVE ParseMembers(_, _, _), MemberKey(_, _, _), MemberColon(_, _, _, _)
RECURSIVE MemberValue(_, _, _, _)
RECURSIVE MemberEnd(_, _, _), ParseElements(_, _, _), ElementEnd(_, _, _)

\* The value at position i, which holds no blank.
ParseValueAt(s, i) ==
    IF i > Len(s) THEN ParseFail
    ELSE IF s[i] = "{" THEN ParseObjectAt(s, SkipWs(s, i + 1))
    ELSE IF s[i] = "[" THEN ParseArrayAt(s, SkipWs(s, i + 1))
    ELSE IF s[i] = QUOTE THEN ParseChars(s, i + 1)
    ELSE IF s[i] \in NumLexemes THEN ParseOk(JNum(NumValue(s[i])), i + 1)
    ELSE IF s[i] = "true" THEN ParseOk(JBool(TRUE), i + 1)
    ELSE IF s[i] = "false" THEN ParseOk(JBool(FALSE), i + 1)
    ELSE IF s[i] = "null" THEN ParseOk(JNull, i + 1)
    ELSE ParseFail

ParseValue(s, i) == ParseValueAt(s, SkipWs(s, i))

\* After `{`, at position j.
ParseObjectAt(s, j) ==
    IF j <= Len(s) /\ s[j] = "}" THEN ParseOk(JObj(<<>>), j + 1)
    ELSE ParseMembers(s, j, <<>>)

\* After `[`, at position j.
ParseArrayAt(s, j) ==
    IF j <= Len(s) /\ s[j] = "]" THEN ParseOk(JArr(<<>>), j + 1)
    ELSE ParseElements(s, j, <<>>)

\* "key": value pairs from position i, after `{` or `,`; o holds the pairs
\* read so far.
ParseMembers(s, i, o) ==
    IF i > Len(s) \/ s[i] # QUOTE THEN ParseFail
    ELSE MemberKey(s, ParseChars(s, i + 1), o)

\* The key k is read.
MemberKey(s, k, o) ==
    IF ~k.ok THEN ParseFail ELSE MemberColon(s, k, o, SkipWs(s, k.next))

\* After the key k, at position c: the colon and the value.
MemberColon(s, k, o, c) ==
    IF c > Len(s) \/ s[c] # ":" THEN ParseFail
    ELSE MemberValue(s, k, o, ParseValue(s, c + 1))

\* The key k and the value v are read.
MemberValue(s, k, o, v) ==
    IF ~v.ok THEN ParseFail
    ELSE MemberEnd(s, SkipWs(s, v.next), WithProp(o, k.val.s, v.val))

\* After a pair, at position e: `}` or `,`.
MemberEnd(s, e, o) ==
    IF e > Len(s) THEN ParseFail
    ELSE IF s[e] = "}" THEN ParseOk(JObj(o), e + 1)
    ELSE IF s[e] = "," THEN ParseMembers(s, SkipWs(s, e + 1), o)
    ELSE ParseFail

\* Array elements from position i, after `[` or `,`; a holds the elements
\* read so far.
ParseElements(s, i, a) == ElementEnd(s, ParseValue(s, i), a)

\* The element v is read: `]` or `,`.
ElementEnd(s, v, a) ==
    IF ~v.ok \/ SkipWs(s, v.next) > Len(s) THEN ParseFail
    ELSE IF s[SkipWs(s, v.next)] = "]" THEN ParseOk(JArr(Append(a, v.val)), SkipWs(s, v.next) + 1)
    ELSE IF s[SkipWs(s, v.next)] = ","
         THEN ParseElements(s, SkipWs(s, v.next) + 1, Append(a, v.val))
    ELSE ParseFail

\* The parse r of the whole text: nothing but blanks may follow the value.
WholeText(s, r) ==
    IF r.ok /\ SkipWs(s, r.next) > Len(s)
    THEN [ok |-> TRUE, val |-> r.val]
    ELSE [ok |-> FALSE, val |-> JUndefined]

\* JSON.parse(s): [ok |-> FALSE] stands for the SyntaxError it throws.
JSONParse(s) == WholeText(s, ParseValue(s, 1))

\* ------------------------------------------------------------------------
\* String helpers of the normaliser
\* ------------------------------------------------------------------------

\* The text between the first and the last of the positions `ink`.
Between(s, ink) ==
    IF ink = {} THEN <<>> ELSE SubSeq(s, MinOf(ink), MaxOf(ink))

\* s.trim()
Trim(s) == Between(s, {j \in 1 .. Len(s) : s[j] \notin Whitespace})

\* s has the three-backtick fence at position i.
FenceAt(s, i) ==
    i + 2 <= Len(s) /\ s[i] = BT /\ s[i + 1] = BT /\ s[i + 2] = BT

\* The position of the first ```json at or after i, 0 when there is none.
NextJsonFence(s, i) ==
    FirstIndex(LAMBDA k : FenceAt(s, k) /\ k + 3 <= Len(s)
                            /\ s[k + 3] \in {"json", "JSON"}, i, Len(s))

\* The position of the first fence at or after i, 0 when there is none.
NextFence(s, i) == FirstIndex(LAMBDA k : FenceAt(s, k), i, Len(s))

\* The position of the first backtick at or after i, 0 when there is none.
NextBacktick(s, i) == FirstIndex(LAMBDA k : s[k] = BT, i, Len(s))

RECURSIVE RemoveJsonFences(_, _), CutJsonFence(_, _, _)
RECURSIVE RemoveFences(_, _), CutFence(_, _, _)
RECURSIVE StringifyBacktickSpans(_, _), StringifyFrom(_, _, _), StringifySpan(_, _, _, _)

\* s.replace(/```json\s*/gi, "") from position i on.
RemoveJsonFences(s, i) == CutJsonFence(s, i, NextJsonFence(s, i))

\* The next match is at f (0: there is none).
CutJsonFence(s, i, f) ==
    IF f = 0 THEN SubSeq(s, i, Len(s))
    ELSE SubSeq(s, i, f - 1) \o RemoveJsonFences(s, SkipWs(s, f + 4))

\* s.replace(/```\s*/g, "") from position i on.
RemoveFences(s, i) == CutFence(s, i, NextFence(s, i))

\* The next match is at f (0: there is none).
CutFence(s, i, f) ==
    IF f = 0 THEN SubSeq(s, i, Len(s))
    ELSE SubSeq(s, i, f - 1) \o RemoveFences(s, SkipWs(s, f + 3))

\* s.replace(/`([^`]*)`/g, (match, content) => JSON.stringify(content))
\* from position i on.
StringifyBacktickSpans(s, i) == StringifyFrom(s, i, NextBacktick(s, i))

\* The next backtick is at b1 (0: there is none).
StringifyFrom(s, i, b1) ==
    IF b1 = 0 THEN SubSeq(s, i, Len(s))
    ELSE StringifySpan(s, i, b1, NextBacktick(s, b1 + 1))

\* The next two backticks are at b1 and b2 (0: there is no second one).
StringifySpan(s, i, b1, b2) ==
    IF b2 = 0 THEN SubSeq(s, i, Len(s))
    ELSE SubSeq(s, i, b1 - 1) \o JSONStringify(SubSeq(s, b1 + 1, b2 - 1))
             \o StringifyBacktickSpans(s, b2 + 1)

\* s.replace(/`/g, "")
RemoveBackticks(s) == SelectSeq(s, LAMBDA c : c # BT)

\* The pattern /"<field>":\s*`([^`]*)`/ matches at position k, for a field
\* name in `fields`.
CodeFieldAt(s, k, fields) ==
    /\ k + 3 <= Len(s)
    /\ s[k] = QUOTE /\ s[k + 1] \in fields /\ s[k + 2] = QUOTE /\ s[k + 3] = ":"
    /\ SkipWs(s, k + 4) <= Len(s) /\ s[SkipWs(s, k + 4)] = BT
    /\ NextBacktick(s, SkipWs(s, k + 4) + 1) # 0

\* s.replace(/"<field>":\s*`([^`]*)`/g, (_, code) => `"<field>": ${JSON.stringify(code)}`)
\* from position i on.
RECURSIVE RewriteCodeFields(_, _, _), RewriteFrom(_, _, _, _), RewriteField(_, _, _, _, _)
RewriteCodeFields(s, i, fields) ==
    RewriteFrom(s, i, fields,
        FirstIndex(LAMBDA p : CodeFieldAt(s, p, fields), i, Len(s)))

\* The next match starts at k (0: there is none).
RewriteFrom(s, i, fields, k) ==
    IF k = 0 THEN SubSeq(s, i, Len(s))
    ELSE RewriteField(s, i, fields, k, SkipWs(s, k + 4))

\* The match starts at k and its opening backtick is at b.
RewriteField(s, i, fields, k, b) ==
    SubSeq(s, i, k - 1) \o <<QUOTE, s[k + 1], QUOTE, ":", SP>>
        \o JSONStringify(SubSeq(s, b + 1, NextBacktick(s, b + 1) - 1))
        \o RewriteCodeFields(s, NextBacktick(s, b + 1) + 1, fields)

sanitizeJson(jsonString) ==
    LET s0 == Trim(jsonString)
        s1 == RemoveJsonFences(s0, 1)
        s2 == RemoveFences(s1, 1)
        s3 == StringifyBacktickSpans(s2, 1)
        s4 == RewriteCodeFields(s3, 1, {"code"})
        s5 == RewriteCodeFields(s4, 1, {"correctedCode"})
    IN RemoveBackticks(s5)

\* sanitizeJson of the second copy of ai.ts (the ```javascript rewrite is
\* covered by the plain fence rewrite once the word is dropped with it).
sanitizeJsonEnhanced(jsonString) ==
    LET s0 == Trim(jsonString)
        s1 == RemoveJsonFences(s0, 1)
        s2 == RemoveFences(s1, 1)
        s3 == RewriteCodeFields(s2, 1, {"code", "correctedCode"})
    IN RemoveBackticks(s3)

\* The brace depth of extractFirstJson's loop after it has read position j.
DepthAfter(text, start, j) ==
    Cardinality({p \in start .. j : text[p] = "{"})
        - Cardinality({p \in start .. j : text[p] = "}"})

\* The loop as it would be if it stopped at the first closing brace.
MatchingBrace_FirstClose(text, start) ==
    FirstIndex(LAMBDA j : text[j] = "}", start, Len(text))

\* The position at which the loop returns: the first closing brace from
\* `start` on that takes the depth to zero; 0 when the loop runs off the end.
MatchingBrace(text, start) ==
    FirstIndex(LAMBDA j : text[j] = "}" /\ DepthAfter(text, start, j) = 0, start, Len(text))

\* text.indexOf(c), counted from 1; 0 is "not found".
IndexOf(text, c) == FirstIndex(LAMBDA j : text[j] = c, 1, Len(text))

NotFound == [found |-> FALSE, text |-> <<>>]

\* The loop of extractFirstJson from the first opening brace, at `start`.
ExtractFrom(text, start, end) ==
    IF end = 0 THEN NotFound ELSE [found |-> TRUE, text |-> SubSeq(text, start, end)]

\* text.indexOf("{") gave `start`.
ExtractAt(text, start) ==
    IF start = 0 THEN NotFound ELSE ExtractFrom(text, start, MatchingBrace(text, start))

\* extractFirstJson: NotFound stands for null.
extractFirstJson(text) == ExtractAt(text, IndexOf(text, "{"))

\* The position after the optional word json of the fence at `open`.
AfterFenceWord(s, open) ==
    IF open + 3 <= Len(s) /\ s[open + 3] \in {"json", "JSON"} THEN open + 4 ELSE open + 3

RECURSIVE FencedBlock(_, _), FencedFrom(_, _), FencedBody(_, _, _), FencedTo(_, _, _, _)

\* candidate.match(/```(?:json)?\s*([\s\S]*?)```/i)?.[1]: the text between the
\* first fence that has a closing fence and that closing fence, after the
\* optional word json and blanks; <<>> when nothing matches.
FencedBlock(s, i) == FencedFrom(s, NextFence(s, i))

\* The opening fence is at `open` (0: there is none).
FencedFrom(s, open) ==
    IF open = 0 THEN <<>> ELSE FencedBody(s, open, SkipWs(s, AfterFenceWord(s, open)))

\* The captured text starts at b.
FencedBody(s, open, b) == FencedTo(s, open, b, NextFence(s, b))

\* The closing fence is at `close` (0: there is none for this opening fence).
FencedTo(s, open, b, close) ==
    IF close = 0 THEN FencedBlock(s, open + 1) ELSE SubSeq(s, b, close - 1)

\* The markdown code block as the last resort.
PickFenced(candidate, md) == IF md # <<>> THEN Trim(md) ELSE candidate

\* The extracted JSON substring, or else the markdown code block.
PickExtracted(candidate, extracted) ==
    IF extracted.found THEN extracted.text
    ELSE PickFenced(candidate, FencedBlock(candidate, 1))

\* if (!candidate.startsWith("{")) { ... }
PickCandidate(candidate) ==
    IF candidate # <<>> /\ Head(candidate) = "{" THEN candidate
    ELSE PickExtracted(candidate, extractFirstJson(candidate))

\* evaluateTask, from the raw output to the sanitised candidate.
CandidateOf(rawOutput) == sanitizeJson(PickCandidate(Trim(rawOutput)))

\* evaluateTask, from the raw output to the parsed object.
NormalizeOutput(rawOutput) == JSONParse(CandidateOf(rawOutput))

\* The second parse of parseJsonResponse, when the direct parse is not taken.
ExtractAndParse(candidate) ==
    JSONParse(sanitizeJsonEnhanced(
        PickExtracted(candidate, extractFirstJson(candidate))))

\* The direct parse of a candidate that starts with a brace gave `direct`.
DirectOr(candidate, direct) ==
    IF direct.ok THEN direct ELSE ExtractAndParse(candidate)

ParseCandidate(candidate) ==
    IF candidate # <<>> /\ Head(candidate) = "{"
    THEN DirectOr(candidate, JSONParse(candidate))
    ELSE ExtractAndParse(candidate)

\* parseJsonResponse of the second copy of ai.ts: a direct parse first, then
\* extraction, sanitising and a second parse.
parseJsonResponse(rawOutput) == ParseCandidate(Trim(rawOutput))

\* ------------------------------------------------------------------------
\* Texts the gateway can answer with
\* ------------------------------------------------------------------------

\* texts joined with sep between them.
JoinTexts(texts, sep) ==
    Flatten([k \in 1 .. Len(texts) |-> IF k = 1 THEN texts[k] ELSE sep \o texts[k]])

ArrayText(items) == <<"[">> \o JoinTexts(items, <<",">>) \o <<"]">>
ObjectText(members) == <<"{">> \o JoinTexts(members, <<",", SP>>) \o <<"}">>

\* "key": value, or nothing when the value text is empty (the field is left out).
Field(key, valueText) ==
    IF valueText = <<>> THEN <<>>
    ELSE <<JSONStringify(<<key>>) \o <<":", SP>> \o valueText>>

\* The object the evaluation prompt asks the model for.
EvaluationText(score, strengths, improvements, feedback, suggestions) ==
    ObjectText(Field("score", score) \o Field("strengths", strengths)
               \o Field("improvements", improvements)
               \o Field("feedback", feedback)
               \o Field("suggestions", suggestions))

\* The body of a successful chat completion whose message content is `content`.
CompletionBody(content) ==
    ObjectText(Field("choices",
        ArrayText(<<ObjectText(Field("message",
            ObjectText(Field("content", JSONStringify(content)))))>>)))

\* What the model answers to the evaluation prompt: valid objects, whose
\* feedback names the score the model gave.
ValidReplies ==
    { EvaluationText(<<"7">>, ArrayText(<<JSONStringify(<<"a">>)>>), ArrayText(<<>>),
                     JSONStringify(<<"seven">>), ArrayText(<<>>)),
      EvaluationText(<<"1">>, ArrayText(<<>>), ArrayText(<<>>),
                     JSONStringify(<<"one">>), ArrayText(<<>>)),
      EvaluationText(<<"10">>, ArrayText(<<>>), ArrayText(<<>>),
                     JSONStringify(<<"ten">>), ArrayText(<<>>)),
      <<BT, BT, BT, "json", NL>>
          \o EvaluationText(<<"15">>, ArrayText(<<>>), ArrayText(<<>>),
                            JSONStringify(<<"fifteen">>), ArrayText(<<>>))
          \o <<NL, BT, BT, BT>>,
      <<"Result", ":", SP>>
          \o EvaluationText(<<"0">>, ArrayText(<<>>), ArrayText(<<>>),
                            JSONStringify(<<"zero">>), ArrayText(<<>>)),
      EvaluationText(<<"-3">>, ArrayText(<<>>), ArrayText(<<JSONStringify(<<"b">>)>>),
                     JSONStringify(<<"minus-three">>), ArrayText(<<>>)) }

MalformedReplies ==
    { EvaluationText(<<>>, ArrayText(<<>>), ArrayText(<<>>),
                     JSONStringify(<<"ok">>), ArrayText(<<>>)),
      EvaluationText(JSONStringify(<<"7">>), ArrayText(<<>>), ArrayText(<<>>),
                     JSONStringify(<<"ok">>), ArrayText(<<>>)),
      EvaluationText(<<"7">>, <<>>, ArrayText(<<>>),
                     JSONStringify(<<"ok">>), ArrayText(<<>>)),
      EvaluationText(<<"7">>, ArrayText(<<>>), JSONStringify(<<"none">>),
                     JSONStringify(<<"ok">>), ArrayText(<<>>)),
      EvaluationText(<<"7">>, ArrayText(<<>>), ArrayText(<<>>),
                     <<"5">>, ArrayText(<<>>)),
      EvaluationText(<<"7">>, ArrayText(<<>>), ArrayText(<<>>),
                     JSONStringify(<<"ok">>), <<>>),
      <<"null">> }

UnparseableReplies == { <<"I", SP, "cannot", SP, "evaluate", SP, "this">> }

EvaluationReplies == ValidReplies \cup MalformedReplies \cup UnparseableReplies

\* What the model answers to the premium-insights prompt.
InsightReplies ==
    { ObjectText(Field("architecture", JSONStringify(<<"layered">>))
                 \o Field("codeQuality", <<"15">>)
                 \o Field("industryAverage", <<"-3">>)),
      ObjectText(Field("architecture", JSONStringify(<<"flat">>))),
      <<"Sorry">> }

\* What a request to the chat-completion endpoint comes to: no response at
\* all (fetch rejects), a non-success status, a success with an empty body, a
\* success with a body that is no JSON, and a success with a completion.
NetworkFailure == [answered |-> FALSE, ok |-> FALSE, body |-> <<>>]
ErrorResponse == [answered |-> TRUE, ok |-> FALSE, body |-> <<"model_decommissioned">>]
EmptyResponse == [answered |-> TRUE, ok |-> TRUE, body |-> <<>>]
HtmlResponse ==
    [answered |-> TRUE, ok |-> TRUE, body |-> <<"<html>", "Bad", SP, "gateway", "</html>">>]

Completion(content) == [answered |-> TRUE, ok |-> TRUE, body |-> CompletionBody(content)]

EvaluationResponses ==
    {NetworkFailure, ErrorResponse, EmptyResponse, HtmlResponse}
        \cup {Completion(c) : c \in EvaluationReplies}

InsightResponses ==
    {ErrorResponse, EmptyResponse} \cup {Completion(c) : c \in InsightReplies}

\* Model identifiers, cut where the code's substring tests cut them.
Llama33Versatile == <<"llama-3.3", "-70b-versatile">>
Llama33Instant == <<"llama-3.3", "-8b-instant">>
Gemma2 == <<"gemma2", "-9b-it">>
Mixtral == <<"mixtral", "-8x22b">>
Llama31Versatile == <<"llama-3.1", "-70b-versatile">>
Llama31Instant == <<"llama-3.1", "-8b-instant">>
Whisper == <<"whisper", "-large-v3">>

NoModel == <<>>

\* What a request to the model-listing endpoint comes to: no response at all,
\* a non-success status, a body that holds no list, and lists of model
\* identifiers.
Listing(ok, isList, data) == [answered |-> TRUE, ok |-> ok, isList |-> isList, data |-> data]

Listings ==
    { [answered |-> FALSE, ok |-> FALSE, isList |-> FALSE, data |-> <<>>],
      Listing(FALSE, FALSE, <<>>),
      Listing(TRUE, FALSE, <<>>),
      Listing(TRUE, TRUE, <<>>),
      Listing(TRUE, TRUE, <<Whisper>>),
      Listing(TRUE, TRUE, <<Whisper, Llama31Instant, Gemma2>>),
      Listing(TRUE, TRUE, <<Llama33Instant, Mixtral>>) }

\* ------------------------------------------------------------------------
\* evaluate-task/ai.ts: the gateway calls
\* ------------------------------------------------------------------------

\* v?.[0]
First(v) == IF v.t = "array" /\ Len(v.a) >= 1 THEN v.a[1] ELSE JUndefined

\* a ?? b
Nullish(a, b) == IF a.t \in {"undefined", "null"} THEN b ELSE a

\* json.choices?.[0]?.message?.content ?? json.choices?.[0]?.text
ContentOf(choice) ==
    Nullish(Prop(Prop(choice, <<"message">>), <<"content">>), Prop(choice, <<"text">>))

\* if (raw) return String(raw); else the body text.  (The contents the model
\* enumerates are strings or absent.)
ContentOr(raw, text) ==
    IF raw.t = "string" /\ raw.s # <<>>
    THEN [threw |-> FALSE, out |-> raw.s]
    ELSE [threw |-> FALSE, out |-> text]

\* The body of an ok response, parsed as `json`.
OutputOf(text, json) ==
    IF json.ok THEN ContentOr(ContentOf(First(Prop(json.val, <<"choices">>))), text)
    ELSE [threw |-> FALSE, out |-> text]

\* callGroqChat as it would be if a success whose body is empty or no JSON
\* were thrown like a non-success status.
callGroqChat_Strict(res) ==
    IF ~res.answered \/ ~res.ok \/ res \in {EmptyResponse, HtmlResponse}
    THEN [threw |-> TRUE, out |-> <<>>]
    ELSE OutputOf(res.body, JSONParse(res.body))

\* callGroqChat on one response of the endpoint: it throws when fetch rejects
\* and on a non-success status, returns the message content when the body is a completion with a
\* non-empty content, and returns the body text otherwise.
callGroqChat(res) ==
    IF ~res.answered \/ ~res.ok THEN [threw |-> TRUE, out |-> <<>>]
    ELSE OutputOf(res.body, JSONParse(res.body))

\* The preferred model list of evaluateTask and of generatePremiumInsights.
preferred == <<Llama33Versatile, Llama33Instant, Gemma2, Mixtral>>

knownWorkingModels ==
    <<Llama33Versatile, Llama33Instant, Gemma2, Mixtral, Llama31Versatile, Llama31Instant>>

preferOrder ==
    << <<"llama-3.3">>, <<"gemma2">>, <<"mixtral", "-8x22b">>, <<"llama-3.1">>, <<"mixtral">> >>

\* m.includes(k)
Includes(m, k) ==
    \E i \in 1 .. (Len(m) - Len(k) + 1) : SubSeq(m, i, i + Len(k) - 1) = k

\* The score of the sort comparator: 10 - idx for every preferOrder key the
\* identifier includes (idx counts from 0).
RECURSIVE PreferScore(_, _)
PreferScore(m, idx) ==
    IF idx > Len(preferOrder) THEN 0
    ELSE (IF Includes(m, preferOrder[idx]) THEN 10 - (idx - 1) ELSE 0)
         + PreferScore(m, idx + 1)

\* m includes one of the known working models.
IsWorking(m) == \E k \in DOMAIN knownWorkingModels : Includes(m, knownWorkingModels[k])

\* workingModels.sort(...)[0]: the sort is stable and descending in the
\* score, so element 0 after it is the first model with the greatest score.
SortedFirst(workingModels) ==
    workingModels[
        CHOOSE i \in DOMAIN workingModels :
          /\ \A j \in DOMAIN workingModels :
               PreferScore(workingModels[j], 1) <= PreferScore(workingModels[i], 1)
          /\ \A j \in 1 .. (i - 1) :
               PreferScore(workingModels[j], 1) < PreferScore(workingModels[i], 1)]

\* The choice as it would be without the last resort.
PickFrom_WorkingOnly(allModels, workingModels) ==
    IF workingModels = <<>> THEN NoModel ELSE SortedFirst(workingModels)

\* The choice among all the listed models and the working ones.
PickFrom(allModels, workingModels) ==
    IF workingModels = <<>>
    THEN (IF allModels # <<>> THEN allModels[1] ELSE NoModel)
    ELSE SortedFirst(workingModels)

\* pickFallbackModel on one response of the listing endpoint; NoModel is null.
\* (When fetch rejects the function throws: see PickFallback.)
pickFallbackModel(listing) ==
    IF ~listing.ok \/ ~listing.isList THEN NoModel
    ELSE PickFrom(listing.data, SelectSeq(listing.data, IsWorking))

\* ------------------------------------------------------------------------
\* evaluate-task/ai.ts: validation and clamping
\* ------------------------------------------------------------------------

\* The structure check without its test of the score.
ValidStructure_NoScore(evaluation) ==
    /\ Prop(evaluation, <<"strengths">>).t = "array"
    /\ Prop(evaluation, <<"improvements">>).t = "array"
    /\ Prop(evaluation, <<"feedback">>).t = "string"
    /\ Prop(evaluation, <<"suggestions">>).t = "array"

\* The "Validate structure" test of evaluateTask, negated: no error is thrown.
ValidStructure(evaluation) ==
    /\ Prop(evaluation, <<"score">>).t = "number"
    /\ Prop(evaluation, <<"strengths">>).t = "array"
    /\ Prop(evaluation, <<"improvements">>).t = "array"
    /\ Prop(evaluation, <<"feedback">>).t = "string"
    /\ Prop(evaluation, <<"suggestions">>).t = "array"

\* The clamp without its floor, and without its ceiling.
ClampScore_NoFloor(score) == Min(10, score)
ClampScore_NoCeiling(score) == Max(1, score)

\* Math.max(1, Math.min(10, score))
ClampScore(score) == Max(1, Min(10, score))

\* evaluation.score = Math.max(1, Math.min(10, evaluation.score))
WithClampedScore(evaluation) ==
    JObj(WithProp(evaluation.o, <<"score">>,
                  JNum(ClampScore(Prop(evaluation, <<"score">>).n))))

\* The errors evaluateTask raises.
ErrNoModel == "No available model to perform AI evaluation"
ErrNoOutput == "Groq returned no output"
ErrInvalidJson == "Invalid JSON returned from AI"
ErrMalformed == "AI returned an evaluation, but format was invalid"
ErrTypeError == "TypeError"
ErrFetch == "fetch failed"

NoEvaluation(error) == [error |-> error, evaluation |-> JUndefined]

\* evaluateTask from the parse on: the error it throws ("" for none) and the
\* evaluation.
Validated(parsed) ==
    IF ~parsed.ok THEN NoEvaluation(ErrInvalidJson)
    ELSE IF parsed.val.t = "null" THEN NoEvaluation(ErrTypeError)
    ELSE IF ~ValidStructure(parsed.val) THEN NoEvaluation(ErrMalformed)
    ELSE [error |-> "", evaluation |-> WithClampedScore(parsed.val)]

\* evaluateTask from the raw output to the clamped evaluation.
PrimaryEvaluation(rawOutput) == Validated(NormalizeOutput(rawOutput))

\* Math.max(lo, Math.min(hi, v))
Clamp(lo, hi, v) == Max(lo, Min(hi, v))

\* The benchmark codeQuality: the clamped number, or else the score times 10.
CodeQualityOf(insights, evaluation) ==
    IF Prop(insights, <<"codeQuality">>).t = "number"
    THEN Clamp(0, 100, Prop(insights, <<"codeQuality">>).n)
    ELSE Clamp(0, 100, Prop(evaluation, <<"score">>).n * 10)

\* A benchmark with a default derived from codeQuality.
BenchmarkOf(v, lo, hi, default) ==
    IF v.t # "number" THEN Clamp(lo, hi, default) ELSE Clamp(0, 100, v.n)

\* The three benchmarks written into the insights.
WithBenchmarks(insights, codeQuality) ==
    JObj(WithProp(WithProp(WithProp(insights.o,
        <<"codeQuality">>, JNum(codeQuality)),
        <<"industryAverage">>,
            JNum(BenchmarkOf(Prop(insights, <<"industryAverage">>), 50, 80, codeQuality + 20))),
        <<"topPerformers">>,
            JNum(BenchmarkOf(Prop(insights, <<"topPerformers">>), 70, 98, codeQuality + 50))))

\* generatePremiumInsights from the parse on; ok = FALSE when it throws.
InsightsFrom(parsed, evaluation) ==
    IF ~parsed.ok \/ parsed.val.t # "object" THEN [ok |-> FALSE, val |-> JUndefined]
    ELSE [ok |-> TRUE,
          val |-> WithBenchmarks(parsed.val, CodeQualityOf(parsed.val, evaluation))]

\* generatePremiumInsights from its raw output on: the parse, the clamps and
\* the defaults of the three benchmarks.
InsightsOf(rawOutput, evaluation) == InsightsFrom(NormalizeOutput(rawOutput), evaluation)

\* evaluation.premiumInsights = premiumInsights
WithInsights(evaluation, premiumInsights) ==
    JObj(WithProp(evaluation.o, <<"premiumInsights">>, premiumInsights))

\* The catch block as it would be if it filled the field in with a default.
WithoutInsights_Defaults(evaluation) == WithInsights(evaluation, JNull)

\* The catch block around generatePremiumInsights: the evaluation goes on
\* as it is.
WithoutInsights(evaluation) == evaluation

\* What callGroqChat makes of each response the gateway can give.
ChatResults ==
    [res \in EvaluationResponses \cup InsightResponses |-> callGroqChat(res)]

\* The raw outputs evaluateTask and generatePremiumInsights can hold.
RawOutputs == {ChatResults[res].out : res \in EvaluationResponses}
InsightOutputs == {ChatResults[res].out : res \in InsightResponses}

\* What evaluateTask makes of each raw output.
PrimaryResults == [rawOutput \in RawOutputs |-> PrimaryEvaluation(rawOutput)]

\* The evaluations evaluateTask can hand to generatePremiumInsights.
Evaluations ==
    {PrimaryResults[rawOutput].evaluation :
        rawOutput \in {x \in RawOutputs : PrimaryResults[x].error = ""}}

\* What generatePremiumInsights makes of each raw output, per evaluation.
InsightResults ==
    [p \in InsightOutputs \X Evaluations |-> InsightsOf(p[1], p[2])]

\* ------------------------------------------------------------------------
\* Task creation (POST /api/tasks/create)
\* ------------------------------------------------------------------------

MaxTasks == 1
MaxRuns == 1

Users == {"u1", "u2"}

\* The size check of the route: "allow up to 500KB".
PayloadLimit == 500000

\* Request bodies: the user id (empty, not a UUID, or an account's id) and the
\* lengths of the title, the description and the code.
CreateBodies ==
    [user_id : Users \cup {"", "not-a-uuid"},
     titleLen : {0, 1}, descriptionLen : {1},
     codeLen : {0, PayloadLimit - 2, PayloadLimit - 1}]

\* The row as it would be if the route inserted it in-progress.
NewTaskRow_Processing(body) ==
    [user_id |-> body.user_id, evaluation_status |-> "processing", ai_evaluation |-> JNull,
     report_unlocked |-> FALSE]

\* The row the route inserts; the table gives report_unlocked its default.
NewTaskRow(body) ==
    [user_id |-> body.user_id, evaluation_status |-> "pending", ai_evaluation |-> JNull,
     report_unlocked |-> FALSE]

\* The route as it would be with >= in the size check.
POST_Inclusive(body) ==
    LET totalSize == body.titleLen + body.descriptionLen + body.codeLen IN
    IF body.user_id = "" \/ body.titleLen = 0 \/ body.descriptionLen = 0
    THEN [status |-> 400, rows |-> <<>>]
    ELSE IF totalSize >= PayloadLimit THEN [status |-> 413, rows |-> <<>>]
    ELSE IF body.user_id \notin Users THEN [status |-> 400, rows |-> <<>>]
    ELSE [status |-> 200, rows |-> <<NewTaskRow(body)>>]

\* The route: the status it answers with and the row it inserts, if any.
POST(body) ==
    LET totalSize == body.titleLen + body.descriptionLen + body.codeLen IN
    IF body.user_id = "" \/ body.titleLen = 0 \/ body.descriptionLen = 0
    THEN [status |-> 400, rows |-> <<>>]
    ELSE IF totalSize > PayloadLimit THEN [status |-> 413, rows |-> <<>>]
    ELSE IF body.user_id \notin Users THEN [status |-> 400, rows |-> <<>>]
    ELSE [status |-> 200, rows |-> <<NewTaskRow(body)>>]

\* Who sends the request: the session of an account, or nobody's.  The route
\* reads nothing of it.
Callers == Users \cup {"anon"}

CreateTask ==
    /\ Len(tasks) < MaxTasks
    /\ \E caller \in Callers, body \in CreateBodies :
         /\ tasks' = tasks \o POST(body).rows
         /\ callers' = callers \o [k \in 1 .. Len(POST(body).rows) |-> caller]
    /\ UNCHANGED <<runs, norm, calc, payments, profiles, verifies, shopVars, siteVars>>

\* ------------------------------------------------------------------------
\* The evaluate-task function: the request handler around evaluateTask
\* ------------------------------------------------------------------------

RunIds == 1 .. MaxRuns
TaskIds == 1 .. MaxTasks

\* An invocation slot at rest; resp is the answer of the last request it
\* served, marked tells that the invocation has set its task in-progress.
IdleRun(resp) ==
    [pc |-> "idle", task |-> 0, idx |-> 0, rawOutput |-> <<>>, fallback |-> NoModel,
     evaluation |-> JUndefined, insightsRaw |-> <<>>, log |-> <<>>, res |-> <<>>,
     lists |-> 0, error |-> "", marked |-> FALSE, resp |-> resp]

\* The request as it would be answered without the look at the status.
RequestEvaluation_NoCheck(r, t) ==
    /\ runs[r].pc = "idle"
    /\ runs' = [runs EXCEPT ![r] =
                  IF t \notin DOMAIN tasks THEN IdleRun("not-found")
                  ELSE [IdleRun("none") EXCEPT !.pc = "accepted", !.task = t]]
    /\ UNCHANGED <<tasks, norm, calc, payVars>>

\* A request for task t arrives at an idle invocation slot: not-found for a
\* task that does not exist, already-processing for one that is being
\* evaluated, accepted otherwise.
RequestEvaluation(r, t) ==
    /\ runs[r].pc = "idle"
    /\ runs' = [runs EXCEPT ![r] =
                  IF t \notin DOMAIN tasks THEN IdleRun("not-found")
                  ELSE IF tasks[t].evaluation_status = "processing"
                       THEN IdleRun("already-processing")
                  ELSE [IdleRun("none") EXCEPT !.pc = "accepted", !.task = t]]
    /\ UNCHANGED <<tasks, norm, calc, payVars>>

\* The accepted request marks the task in-progress, then calls evaluateTask.
MarkProcessing(r) ==
    /\ runs[r].pc = "accepted"
    /\ tasks' = [tasks EXCEPT ![runs[r].task].evaluation_status = "processing"]
    /\ runs' = [runs EXCEPT ![r].pc = "preferred", ![r].idx = 1, ![r].marked = TRUE]
    /\ UNCHANGED <<norm, calc, payVars>>

\* The update as it would be if it kept a result that is already stored.
StoreCompleted_KeepOld(r) ==
    /\ runs[r].pc = "returned"
    /\ tasks' = [tasks EXCEPT ![runs[r].task] =
                   [@ EXCEPT !.evaluation_status = "completed",
                             !.ai_evaluation =
                                 IF @ = JNull THEN runs[r].evaluation ELSE @]]
    /\ runs' = [runs EXCEPT ![r] = IdleRun("completed")]
    /\ UNCHANGED <<norm, calc, payVars>>

\* evaluateTask returned: the result and the status done, in one update.
StoreCompleted(r) ==
    /\ runs[r].pc = "returned"
    /\ tasks' = [tasks EXCEPT ![runs[r].task] =
                   [@ EXCEPT !.evaluation_status = "completed",
                             !.ai_evaluation = runs[r].evaluation]]
    /\ runs' = [runs EXCEPT ![r] = IdleRun("completed")]
    /\ UNCHANGED <<norm, calc, payVars>>

\* evaluateTask threw: the status errored, and nothing else.
StoreFailed(r) ==
    /\ runs[r].pc = "threw"
    /\ tasks' = [tasks EXCEPT ![runs[r].task].evaluation_status = "failed"]
    /\ runs' = [runs EXCEPT ![r] = IdleRun("failed")]
    /\ UNCHANGED <<norm, calc, payVars>>

\* ------------------------------------------------------------------------
\* evaluateTask, one step per gateway call
\* ------------------------------------------------------------------------

\* One completion call: the model it went to and whether callGroqChat threw.
LogEntry(kind, model, threw) == [kind |-> kind, model |-> model, threw |-> threw]

\* The call to `model` came to `res`, of which callGroqChat made `call`.
Logged(run, kind, model, res, call) ==
    [run EXCEPT !.log = Append(@, LogEntry(kind, model, call.threw)), !.res = <<res>>]

\* throw new Error(msg) out of evaluateTask.
Throw(run, msg) == [run EXCEPT !.pc = "threw", !.error = msg, !.rawOutput = <<>>]

\* The loop as it would be without its break.
AfterPreferred_NoBreak(run, call) ==
    IF run.idx < Len(preferred)
    THEN [run EXCEPT !.idx = run.idx + 1,
                     !.rawOutput = IF call.threw THEN run.rawOutput ELSE call.out]
    ELSE [run EXCEPT !.rawOutput = IF call.threw THEN run.rawOutput ELSE call.out,
                     !.pc = IF call.threw \/ call.out = <<>> THEN "fallback" ELSE "normalize"]

\* The body of the loop over the preferred models: the call returns (the loop
\* breaks, with whatever it returned) or throws (the loop goes on); after the
\* loop, if (!rawOutput) leads to the fallback.
AfterPreferred(run, call) ==
    IF ~call.threw
    THEN [run EXCEPT !.rawOutput = call.out,
                     !.pc = IF call.out # <<>> THEN "normalize" ELSE "fallback"]
    ELSE IF run.idx < Len(preferred) THEN [run EXCEPT !.idx = run.idx + 1]
    ELSE [run EXCEPT !.pc = "fallback"]

CallPreferred(r) ==
    /\ runs[r].pc = "preferred"
    /\ \E res \in EvaluationResponses :
         runs' = [runs EXCEPT ![r] =
                    AfterPreferred(
                        Logged(runs[r], "preferred", preferred[runs[r].idx], res, ChatResults[res]),
                        ChatResults[res])]
    /\ UNCHANGED <<tasks, norm, calc, payVars>>

\* pickFallbackModel gave `fallback` (it throws when fetch rejects), and
\* evaluateTask throws when it gave null.
AfterListing(run, listing, fallback) ==
    IF ~listing.answered THEN Throw(run, ErrFetch)
    ELSE IF fallback # NoModel THEN [run EXCEPT !.pc = "fallbackCall", !.fallback = fallback]
    ELSE Throw(run, ErrNoModel)

PickFallback(r) ==
    /\ runs[r].pc = "fallback"
    /\ \E listing \in Listings :
         runs' = [runs EXCEPT ![r] =
                    AfterListing([runs[r] EXCEPT !.lists = @ + 1, !.res = <<>>],
                                 listing, pickFallbackModel(listing))]
    /\ UNCHANGED <<tasks, norm, calc, payVars>>

\* The fallback as it would be if a failed call led back to the listing.
AfterFallback_Relist(run, call) ==
    IF ~call.threw /\ call.out # <<>>
    THEN [run EXCEPT !.rawOutput = call.out, !.pc = "normalize"]
    ELSE [run EXCEPT !.pc = "fallback"]

\* The one call with the fallback model, and the final if (!rawOutput).
AfterFallback(run, call) ==
    IF ~call.threw /\ call.out # <<>>
    THEN [run EXCEPT !.rawOutput = call.out, !.pc = "normalize"]
    ELSE Throw(run, ErrNoOutput)

CallFallback(r) ==
    /\ runs[r].pc = "fallbackCall"
    /\ \E res \in EvaluationResponses :
         runs' = [runs EXCEPT ![r] =
                    AfterFallback(
                        Logged(runs[r], "fallback", runs[r].fallback, res, ChatResults[res]),
                        ChatResults[res])]
    /\ UNCHANGED <<tasks, norm, calc, payVars>>

\* Extraction, sanitising, parse, validation and clamp gave `primary`: the
\* throw, or the call of generatePremiumInsights.
AfterNormalize(run, primary) ==
    IF primary.error # "" THEN Throw(run, primary.error)
    ELSE [run EXCEPT !.pc = "insightsPreferred", !.idx = 1,
                     !.evaluation = primary.evaluation, !.rawOutput = <<>>,
                     !.log = <<>>, !.res = <<>>, !.lists = 0, !.fallback = NoModel]

Normalize(r) ==
    /\ runs[r].pc = "normalize"
    /\ runs' = [runs EXCEPT ![r] = AfterNormalize(runs[r], PrimaryResults[runs[r].rawOutput])]
    /\ UNCHANGED <<tasks, norm, calc, payVars>>

\* evaluateTask returns `evaluation`.
Return(run, evaluation) ==
    [run EXCEPT !.pc = "returned", !.evaluation = evaluation,
                !.insightsRaw = <<>>, !.idx = 0, !.fallback = NoModel]

\* generatePremiumInsights threw: evaluateTask returns the evaluation.
InsightsFailed(run) == Return(run, WithoutInsights(run.evaluation))

\* The body of the loop over the preferred models in generatePremiumInsights.
InsightsAfterPreferred(run, call) ==
    IF ~call.threw
    THEN [run EXCEPT !.insightsRaw = call.out,
                     !.pc = IF call.out # <<>> THEN "insightsParse" ELSE "insightsFallback"]
    ELSE IF run.idx < Len(preferred) THEN [run EXCEPT !.idx = run.idx + 1]
    ELSE [run EXCEPT !.pc = "insightsFallback"]

InsightsCallPreferred(r) ==
    /\ runs[r].pc = "insightsPreferred"
    /\ \E res \in InsightResponses :
         runs' = [runs EXCEPT ![r] = InsightsAfterPreferred(runs[r], ChatResults[res])]
    /\ UNCHANGED <<tasks, norm, calc, payVars>>

\* pickFallbackModel in generatePremiumInsights: without a fallback model the
\* function falls through to its throw.
InsightsAfterListing(run, listing, fallback) ==
    IF listing.answered /\ fallback # NoModel
    THEN [run EXCEPT !.pc = "insightsFallbackCall", !.fallback = fallback, !.idx = 0]
    ELSE InsightsFailed(run)

InsightsPickFallback(r) ==
    /\ runs[r].pc = "insightsFallback"
    /\ \E listing \in Listings :
         runs' = [runs EXCEPT ![r] =
                    InsightsAfterListing(runs[r], listing, pickFallbackModel(listing))]
    /\ UNCHANGED <<tasks, norm, calc, payVars>>

InsightsAfterFallback(run, call) ==
    IF ~call.threw /\ call.out # <<>>
    THEN [run EXCEPT !.insightsRaw = call.out, !.pc = "insightsParse"]
    ELSE InsightsFailed(run)

InsightsCallFallback(r) ==
    /\ runs[r].pc = "insightsFallbackCall"
    /\ \E res \in InsightResponses :
         runs' = [runs EXCEPT ![r] = InsightsAfterFallback(runs[r], ChatResults[res])]
    /\ UNCHANGED <<tasks, norm, calc, payVars>>

\* The parse of the insights gave `insights`: evaluateTask returns with or
\* without them.
InsightsAfterParse(run, insights) ==
    IF insights.ok THEN Return(run, WithInsights(run.evaluation, insights.val))
    ELSE InsightsFailed(run)

InsightsParse(r) ==
    /\ runs[r].pc = "insightsParse"
    /\ runs' = [runs EXCEPT ![r] =
                  InsightsAfterParse(runs[r],
                      InsightResults[<<runs[r].insightsRaw, runs[r].evaluation>>])]
    /\ UNCHANGED <<tasks, norm, calc, payVars>>

\* ------------------------------------------------------------------------
\* verify-razorpay-payment/index.ts
\* ------------------------------------------------------------------------

MaxVerifies == 2

VerifyIds == 1 .. MaxVerifies
PaymentIds == {"pay_1", "pay_2"}

\* The JSON bodies of the POST requests; "" and 0 are a missing field.
VerifyBody(payment, order, signature, task) ==
    [razorpay_payment_id |-> payment, razorpay_order_id |-> order,
     razorpay_signature |-> signature, taskId |-> task]

\* Task 1 exists (see InitPay), task 2 does not.
VerifyBodies ==
    {VerifyBody(p, "order_1", "sig_1", t) : p \in PaymentIds, t \in {1, 2}}
        \cup { VerifyBody("", "order_1", "sig_1", 1), VerifyBody("pay_1", "", "sig_1", 1),
               VerifyBody("pay_1", "order_1", "", 1), VerifyBody("pay_1", "order_1", "sig_1", 0) }

\* The Authorization header: none, a token that resolves to no user, or the
\* token of an account.
AuthHeaders == {"none", "stale"} \cup Users

\* What the lookup of the payment at the gateway comes to: no response at
\* all, a status that is or is not a success, a body that is or is not JSON,
\* and the payment status the body names.
LookupResponse(ok, json, status) ==
    [answered |-> TRUE, ok |-> ok, json |-> json, status |-> status]

LookupResponses ==
    { [answered |-> FALSE, ok |-> FALSE, json |-> FALSE, status |-> ""],
      LookupResponse(FALSE, TRUE, ""),
      LookupResponse(FALSE, TRUE, "captured"),
      LookupResponse(TRUE, FALSE, ""),
      LookupResponse(TRUE, TRUE, "failed"),
      LookupResponse(TRUE, TRUE, "captured") }

\* A user_profiles row, or the lack of one.
\* rows counts the rows that hold the account's user_id.
NoProfile ==
    [exists |-> FALSE, premium_user |-> FALSE, premium_since |-> FALSE, rows |-> 0,
     full_name |-> ""]
FreeProfile ==
    [exists |-> TRUE, premium_user |-> FALSE, premium_since |-> FALSE, rows |-> 1,
     full_name |-> ""]

\* An invocation slot at rest.  lookup, inserted and flipped tell what the
\* last invocation it served got from the gateway and did to the store.
IdleVerify ==
    [pc |-> "idle", razorpay_payment_id |-> "", taskId |-> 0, token |-> "none", user |-> "",
     lookup |-> <<>>, inserted |-> FALSE, flipped |-> FALSE, resp |-> 0]

\* return new Response(..., { status })
Answer(ver, status) ==
    [ver EXCEPT !.pc = "idle", !.resp = status, !.razorpay_payment_id = "",
                !.taskId = 0, !.token = "none", !.user = ""]

\* A POST arrives: the check of the four fields and of the header.
Received(body, auth) ==
    IF \/ body.razorpay_payment_id = "" \/ body.razorpay_order_id = ""
       \/ body.razorpay_signature = "" \/ body.taskId = 0
    THEN Answer(IdleVerify, 400)
    ELSE IF auth = "none" THEN Answer(IdleVerify, 401)
    ELSE [IdleVerify EXCEPT !.pc = "getUser", !.token = auth,
                            !.razorpay_payment_id = body.razorpay_payment_id,
                            !.taskId = body.taskId]

ReceiveVerify(v) ==
    /\ verifies[v].pc = "idle"
    /\ \E body \in VerifyBodies, auth \in AuthHeaders :
         verifies' = [verifies EXCEPT ![v] = Received(body, auth)]
    /\ UNCHANGED <<tasks, runs, norm, calc, payments, profiles, shopVars, callers, siteVars>>

\* supabase.auth.getUser(token), and if (!user).
GetUser(v) ==
    /\ verifies[v].pc = "getUser"
    /\ verifies' = [verifies EXCEPT ![v] =
                      IF verifies[v].token \in Users
                      THEN [@ EXCEPT !.pc = "lookup", !.user = verifies[v].token]
                      ELSE Answer(@, 401)]
    /\ UNCHANGED <<tasks, runs, norm, calc, payments, profiles, shopVars, callers, siteVars>>

\* The check as it would be if it looked at the HTTP status alone.
Captured_OkOnly(res) == res.ok

\* if (!res.ok || payment.status !== "captured"), negated.
Captured(res) == res.ok /\ res.status = "captured"

\* The fetch of the payment and res.json(): either throws into the catch
\* block (500); then the check that the payment is captured (400).
LookedUp(ver, res) ==
    IF ~res.answered \/ ~res.json THEN Answer([ver EXCEPT !.lookup = <<res>>], 500)
    ELSE IF ~Captured(res) THEN Answer([ver EXCEPT !.lookup = <<res>>], 400)
    ELSE [ver EXCEPT !.lookup = <<res>>, !.pc = "insert"]

Lookup(v) ==
    /\ verifies[v].pc = "lookup"
    /\ \E res \in LookupResponses :
         verifies' = [verifies EXCEPT ![v] = LookedUp(verifies[v], res)]
    /\ UNCHANGED <<tasks, runs, norm, calc, payments, profiles, shopVars, callers, siteVars>>

\* The table as it would be without the uniqueness of the payment identifier.
InsertFails_NoUnique(row) == row.task_id \notin DOMAIN tasks

\* The payments table refuses a second row with the same payment identifier
\* and a row for a task that does not exist.
InsertFails(row) ==
    \/ \E i \in DOMAIN payments : payments[i].stripe_payment_id = row.stripe_payment_id
    \/ row.task_id \notin DOMAIN tasks

PaymentRow(ver) ==
    [user_id |-> ver.user, task_id |-> ver.taskId,
     stripe_payment_id |-> ver.razorpay_payment_id, status |-> "completed"]

\* supabase.from("payments").insert(...), and if (paymentError).
InsertPayment(v) ==
    /\ verifies[v].pc = "insert"
    /\ IF InsertFails(PaymentRow(verifies[v]))
       THEN /\ verifies' = [verifies EXCEPT ![v] = Answer(@, 500)]
            /\ UNCHANGED payments
       ELSE /\ payments' = Append(payments, PaymentRow(verifies[v]))
            /\ verifies' = [verifies EXCEPT ![v].pc = "premium", ![v].inserted = TRUE]
    /\ UNCHANGED <<tasks, runs, norm, calc, profiles, shopVars, callers, siteVars>>

\* update({ premium_user: true, premium_since: ... }).eq("user_id", user.id):
\* the rows that match, which may be none.
Upgraded(profile) ==
    IF profile.exists THEN [profile EXCEPT !.premium_user = TRUE, !.premium_since = TRUE]
    ELSE profile

\* The update of user_profiles, if (premiumError), and the answer 200.
SetPremium(v) ==
    /\ verifies[v].pc = "premium"
    /\ \E stored \in BOOLEAN :
         IF stored
         THEN /\ profiles' = [profiles EXCEPT ![verifies[v].user] = Upgraded(@)]
              /\ verifies' = [verifies EXCEPT ![v] =
                                Answer([@ EXCEPT !.flipped = profiles[verifies[v].user].exists],
                                       200)]
         ELSE /\ verifies' = [verifies EXCEPT ![v] = Answer(@, 500)]
              /\ UNCHANGED profiles
    /\ UNCHANGED <<tasks, runs, norm, calc, payments, shopVars, callers, siteVars>>

\* ------------------------------------------------------------------------
\* razorpay-webhook/index.ts
\* ------------------------------------------------------------------------

MaxHooks == 1

HookIds == 1 .. MaxHooks

\* What is POSTed to the webhook: a body that is or is not JSON, its event,
\* whether it holds payload.payment.entity, the entity's id, and the task and
\* the user its notes name (0 and "" for none).
HookBody(json, event, entity, id, task, user) ==
    [json |-> json, event |-> event, entity |-> entity, id |-> id, task |-> task,
     user |-> user]

HookBodies ==
    { HookBody(FALSE, "", FALSE, "", 0, ""),
      HookBody(TRUE, "payment.failed", TRUE, "pay_1", 1, "u1"),
      HookBody(TRUE, "payment.captured", FALSE, "", 0, ""),
      HookBody(TRUE, "payment.captured", TRUE, "pay_1", 0, "u1"),
      HookBody(TRUE, "payment.captured", TRUE, "pay_1", 1, ""),
      HookBody(TRUE, "payment.captured", TRUE, "pay_1", 1, "u1"),
      HookBody(TRUE, "payment.captured", TRUE, "pay_1", 1, "u2"),
      HookBody(TRUE, "payment.captured", TRUE, "pay_2", 1, "u1"),
      HookBody(TRUE, "payment.captured", TRUE, "pay_2", 2, "u2") }

\* An invocation slot at rest.  event, inserted, unlocked and paymentError
\* tell what the last delivery it served was, what it did to the store and
\* what the store said to its insert.
IdleHook ==
    [pc |-> "idle", id |-> "", taskId |-> 0, userId |-> "", event |-> "",
     inserted |-> FALSE, unlocked |-> FALSE, paymentError |-> "", resp |-> 0]

\* return new Response(..., { status })
HookAnswer(hook, status) ==
    [hook EXCEPT !.pc = "idle", !.resp = status, !.id = "", !.taskId = 0, !.userId = ""]

\* A POST arrives: the parse of the body, the test of the event, of the
\* payment entity and of the two notes.
HookReceived(body) ==
    IF ~body.json THEN HookAnswer(IdleHook, 400)
    ELSE IF body.event # "payment.captured"
         THEN HookAnswer([IdleHook EXCEPT !.event = body.event], 200)
    ELSE IF ~body.entity \/ body.task = 0 \/ body.user = ""
         THEN HookAnswer([IdleHook EXCEPT !.event = body.event], 400)
    ELSE [IdleHook EXCEPT !.pc = "insert", !.event = body.event, !.id = body.id,
                          !.taskId = body.task, !.userId = body.user]

ReceiveHook(h) ==
    /\ hooks[h].pc = "idle"
    /\ \E body \in HookBodies : hooks' = [hooks EXCEPT ![h] = HookReceived(body)]
    /\ UNCHANGED <<tasks, runs, norm, calc, payments, profiles, verifies, orders, clients, callers, siteVars>>

HookRow(hook) ==
    [user_id |-> hook.userId, task_id |-> hook.taskId,
     stripe_payment_id |-> hook.id, status |-> "completed"]

\* The error of the store for a row it refuses.
InsertError(row) ==
    IF \E i \in DOMAIN payments : payments[i].stripe_payment_id = row.stripe_payment_id
    THEN "duplicate key"
    ELSE "foreign key"

\* supabaseClient.from('payments').insert(...), and if (paymentError).
HookInsert(h) ==
    /\ hooks[h].pc = "insert"
    /\ IF InsertFails(HookRow(hooks[h]))
       THEN /\ hooks' = [hooks EXCEPT ![h] =
                           HookAnswer([@ EXCEPT !.paymentError = InsertError(HookRow(hooks[h]))],
                                      500)]
            /\ UNCHANGED payments
       ELSE /\ payments' = Append(payments, HookRow(hooks[h]))
            /\ hooks' = [hooks EXCEPT ![h].pc = "unlock", ![h].inserted = TRUE]
    /\ UNCHANGED <<tasks, runs, norm, calc, profiles, verifies, orders, clients, callers, siteVars>>

\* update({ report_unlocked: true }).eq('id', taskId).eq('user_id', userId):
\* the rows that match, which may be none.
Unlocked(rows, taskId, userId) ==
    [t \in DOMAIN rows |->
        IF t = taskId /\ rows[t].user_id = userId
        THEN [rows[t] EXCEPT !.report_unlocked = TRUE]
        ELSE rows[t]]

\* The update of tasks, if (unlockError), and the answer 200.
HookUnlock(h) ==
    /\ hooks[h].pc = "unlock"
    /\ \E stored \in BOOLEAN :
         IF stored
         THEN /\ tasks' = Unlocked(tasks, hooks[h].taskId, hooks[h].userId)
              /\ hooks' = [hooks EXCEPT ![h] = HookAnswer([@ EXCEPT !.unlocked = TRUE], 200)]
         ELSE /\ hooks' = [hooks EXCEPT ![h] = HookAnswer(@, 500)]
              /\ UNCHANGED tasks
    /\ UNCHANGED <<runs, norm, calc, payments, profiles, verifies, orders, clients, callers, siteVars>>

\* ------------------------------------------------------------------------
\* create-razorpay-order/index.ts
\* ------------------------------------------------------------------------

MaxOrders == 1

OrderIds == 1 .. MaxOrders

\* The JSON bodies of the POST requests; 0 is a missing field.  A body that
\* is not JSON reads as the empty object: both fields are missing.
OrderBody(task, amount) == [taskId |-> task, amount |-> amount]

OrderBodies == {OrderBody(t, a) : t \in {0, 1, 2}, a \in {0, 9900}}

\* What the gateway's orders endpoint comes to: no response or a body that
\* is not JSON, a status that is not a success, or the order.
OrderResponses == {"throws", "refused", "created"}

\* An invocation slot at rest.  asked and called tell whether the last
\* invocation it served read the tasks table and called the gateway.
IdleOrder ==
    [pc |-> "idle", taskId |-> 0, token |-> "none", user |-> "", asked |-> FALSE,
     called |-> FALSE, resp |-> 0]

\* return new Response(..., { status })
OrderAnswer(ord, status) ==
    [ord EXCEPT !.pc = "idle", !.resp = status, !.taskId = 0, !.token = "none", !.user = ""]

\* The checks as they would be with the header looked at first.
OrderReceived_HeaderFirst(body, auth) ==
    IF auth = "none" THEN OrderAnswer(IdleOrder, 401)
    ELSE IF body.taskId = 0 \/ body.amount = 0 THEN OrderAnswer(IdleOrder, 400)
    ELSE [IdleOrder EXCEPT !.pc = "getUser", !.token = auth, !.taskId = body.taskId]

\* A POST arrives: the check of the two fields and of the header.
OrderReceived(body, auth) ==
    IF body.taskId = 0 \/ body.amount = 0 THEN OrderAnswer(IdleOrder, 400)
    ELSE IF auth = "none" THEN OrderAnswer(IdleOrder, 401)
    ELSE [IdleOrder EXCEPT !.pc = "getUser", !.token = auth, !.taskId = body.taskId]

ReceiveOrder(o) ==
    /\ orders[o].pc = "idle"
    /\ \E body \in OrderBodies, auth \in AuthHeaders :
         orders' = [orders EXCEPT ![o] = OrderReceived(body, auth)]
    /\ UNCHANGED <<tasks, runs, norm, calc, payments, profiles, verifies, hooks, clients, callers, siteVars>>

\* supabase.auth.getUser(token), and if (userErr || !user).
OrderGetUser(o) ==
    /\ orders[o].pc = "getUser"
    /\ orders' = [orders EXCEPT ![o] =
                    IF orders[o].token \in Users
                    THEN [@ EXCEPT !.pc = "task", !.user = orders[o].token]
                    ELSE OrderAnswer(@, 401)]
    /\ UNCHANGED <<tasks, runs, norm, calc, payments, profiles, verifies, hooks, clients, callers, siteVars>>

\* The select as it would be without .eq("user_id", user.id).
TaskOf_AnyOwner(rows, taskId, userId) ==
    IF taskId \in DOMAIN rows THEN <<rows[taskId]>> ELSE <<>>

\* select("*").eq("id", taskId).eq("user_id", user.id).single(): the row, or
\* none.
TaskOf(rows, taskId, userId) ==
    IF taskId \in DOMAIN rows /\ rows[taskId].user_id = userId THEN <<rows[taskId]>> ELSE <<>>

\* if (!task) and if (task.report_unlocked).
TaskChecked(ord, task) ==
    IF task = <<>> THEN OrderAnswer([ord EXCEPT !.asked = TRUE], 400)
    ELSE IF task[1].report_unlocked THEN OrderAnswer([ord EXCEPT !.asked = TRUE], 400)
    ELSE [ord EXCEPT !.asked = TRUE, !.pc = "gateway"]

OrderTask(o) ==
    /\ orders[o].pc = "task"
    /\ orders' = [orders EXCEPT ![o] =
                    TaskChecked(@, TaskOf(tasks, orders[o].taskId, orders[o].user))]
    /\ UNCHANGED <<tasks, runs, norm, calc, payments, profiles, verifies, hooks, clients, callers, siteVars>>

\* The fetch of the orders endpoint, razorpayRes.json() and
\* if (!razorpayRes.ok); a throw goes to the catch block.
OrderCreated(ord, res) ==
    OrderAnswer([ord EXCEPT !.called = TRUE], IF res = "created" THEN 200 ELSE 500)

OrderGateway(o) ==
    /\ orders[o].pc = "gateway"
    /\ \E res \in OrderResponses :
         orders' = [orders EXCEPT ![o] = OrderCreated(@, res)]
    /\ UNCHANGED <<tasks, runs, norm, calc, payments, profiles, verifies, hooks, clients, callers, siteVars>>

\* ------------------------------------------------------------------------
\* The checkout form: the handler that runs when the gateway's dialog
\* reports a payment
\* ------------------------------------------------------------------------

MaxClients == 2

ClientIds == 1 .. MaxClients

\* What the request to verify-razorpay-payment comes to, as the browser sees
\* it: fetch rejects, the body cannot be read, the body is not JSON, or a
\* JSON body with its HTTP status and its success field.
VerifyReply(answered, readable, json, ok, success) ==
    [answered |-> answered, readable |-> readable, json |-> json, ok |-> ok,
     success |-> success]

VerifyReplies ==
    { VerifyReply(FALSE, FALSE, FALSE, FALSE, FALSE),
      VerifyReply(TRUE, FALSE, FALSE, TRUE, FALSE),
      VerifyReply(TRUE, TRUE, FALSE, TRUE, FALSE),
      VerifyReply(TRUE, TRUE, FALSE, FALSE, FALSE) }
        \cup {VerifyReply(TRUE, TRUE, TRUE, ok, success) : ok \in BOOLEAN, success \in BOOLEAN}

\* A browser at rest.  reply, attempted and done tell what the last run of
\* the handler got from the verification, whether it sent the update of
\* user_profiles, and how it ended: "expired" (no session), "verified",
\* "bypassed" (onSuccess after the manual update) or "redirect" (onSuccess
\* after the delay).
IdleClient ==
    [pc |-> "idle", user |-> "", reply |-> <<>>, attempted |-> FALSE, done |-> ""]

Ended(cli, how) == [cli EXCEPT !.pc = "idle", !.user = "", !.done = how]

\* supabase.auth.getSession(), and if (!sessionData.session).
SessionChecked(session) ==
    IF session = "none" THEN Ended(IdleClient, "expired")
    ELSE [IdleClient EXCEPT !.pc = "verify", !.user = session]

handler(c) ==
    /\ clients[c].pc = "idle"
    /\ \E session \in Users \cup {"none"} :
         clients' = [clients EXCEPT ![c] = SessionChecked(session)]
    /\ UNCHANGED <<tasks, runs, norm, calc, payments, profiles, verifies, hooks, orders, callers, siteVars>>

\* The handler as it would be if every failure led to the manual update.
VerifyChecked_AlwaysManual(cli, reply) ==
    IF reply.answered /\ reply.readable /\ reply.json /\ reply.ok /\ reply.success
    THEN Ended([cli EXCEPT !.reply = <<reply>>], "verified")
    ELSE [cli EXCEPT !.reply = <<reply>>, !.pc = "manual"]

\* Steps 3 to 6: the fetch, the read and the parse, each of which throws into
\* the outer catch, and if (verifyResponse.ok && verifyData.success).
VerifyChecked(cli, reply) ==
    IF ~reply.answered \/ ~reply.readable \/ ~reply.json
    THEN Ended([cli EXCEPT !.reply = <<reply>>], "redirect")
    ELSE IF reply.ok /\ reply.success THEN Ended([cli EXCEPT !.reply = <<reply>>], "verified")
    ELSE [cli EXCEPT !.reply = <<reply>>, !.pc = "manual"]

ClientVerify(c) ==
    /\ clients[c].pc = "verify"
    /\ \E reply \in VerifyReplies :
         clients' = [clients EXCEPT ![c] = VerifyChecked(@, reply)]
    /\ UNCHANGED <<tasks, runs, norm, calc, payments, profiles, verifies, hooks, orders, callers, siteVars>>

\* The fallback: update({ premium_user: true, premium_since: ... })
\* .eq('user_id', sessionData.session.user.id) from the browser, and
\* if (!upgradeError).
ManualUpgrade(c) ==
    /\ clients[c].pc = "manual"
    /\ \E stored \in BOOLEAN :
         IF stored
         THEN /\ profiles' = [profiles EXCEPT ![clients[c].user] = Upgraded(@)]
              /\ clients' = [clients EXCEPT ![c] = Ended([@ EXCEPT !.attempted = TRUE], "bypassed")]
         ELSE /\ clients' = [clients EXCEPT ![c] = Ended([@ EXCEPT !.attempted = TRUE], "redirect")]
              /\ UNCHANGED profiles
    /\ UNCHANGED <<tasks, runs, norm, calc, payments, verifies, hooks, orders, callers, siteVars>>

\* ------------------------------------------------------------------------
\* evaluateTask: the code handed to the model (ai.ts, lines 199 to 217)
\* ------------------------------------------------------------------------

\* No call of a function under way.
CalcIdle == [fn |-> "none", arg |-> <<>>, done |-> FALSE, val |-> <<>>]

\* A long text is a sequence of stretches: n times the character c.  A
\* stretch of the program's own text is one opaque piece, n = 1.
Stretch(c, n) == [c |-> c, n |-> n]
Piece(text) == Stretch(text, 1)

RECURSIVE Length(_)
Length(text) == IF text = <<>> THEN 0 ELSE Head(text).n + Length(Tail(text))

\* text.substring(0, k)
RECURSIVE Substring(_, _)
Substring(text, k) ==
    IF text = <<>> \/ k <= 0 THEN <<>>
    ELSE IF Head(text).n <= k THEN <<Head(text)>> \o Substring(Tail(text), k - Head(text).n)
    ELSE <<Stretch(Head(text).c, k)>>

\* The character at position i, counted from 1; "" past the end.
RECURSIVE CharAt(_, _)
CharAt(text, i) ==
    IF text = <<>> THEN ""
    ELSE IF i <= Head(text).n THEN Head(text).c
    ELSE CharAt(Tail(text), i - Head(text).n)

maxCodeLength == 8000

TruncationMarker == Piece("\n\n[... Code truncated due to length ...]")
TruncationNotice ==
    Piece("\n\nNote: Code was truncated for evaluation due to length constraints.")

\* The truncation as it would be with >= for >.
Truncated_AtCeiling(codeContent) ==
    IF Length(codeContent) >= maxCodeLength
    THEN [processedCode |-> Substring(codeContent, maxCodeLength) \o <<TruncationMarker>>,
          wasTruncated |-> TRUE]
    ELSE [processedCode |-> codeContent, wasTruncated |-> FALSE]

\* processedCode and wasTruncated; codeContent || '' is the empty text for no
\* code at all.
Truncated(codeContent) ==
    IF Length(codeContent) > maxCodeLength
    THEN [processedCode |-> Substring(codeContent, maxCodeLength) \o <<TruncationMarker>>,
          wasTruncated |-> TRUE]
    ELSE [processedCode |-> codeContent, wasTruncated |-> FALSE]

\* The prompt: the fixed text around the title, the description, the code in
\* its fence or the sentence that there is none, the notice, the language.
Prompt(title, description, code, language) ==
    <<Piece("You are a STRICT and RIGOROUS code evaluator."), Piece("TASK TITLE:"),
      Piece(title), Piece("TASK DESCRIPTION:"), Piece(description)>>
        \o (IF code.processedCode # <<>>
            THEN <<Piece("CODE SUBMITTED:"), Piece(NL), Stretch(BT, 3),
                   Piece(IF language # "" THEN language ELSE "javascript"), Piece(NL)>>
                     \o code.processedCode \o <<Piece(NL), Stretch(BT, 3)>>
            ELSE <<Piece("No code was submitted for this task.")>>)
        \o (IF code.wasTruncated THEN <<TruncationNotice>> ELSE <<>>)
        \o (IF language # "" THEN <<Piece("PROGRAMMING LANGUAGE:"), Piece(language)>> ELSE <<>>)
        \o <<Piece("EVALUATION CRITERIA (BE STRICT):"), Piece("Return ONLY the JSON object above.")>>

\* Submitted code: none, short, at the ceiling, one past it, far past it, and
\* code that holds the marker's or the notice's own text.
Codes ==
    { <<>>, <<Stretch("a", 1)>>, <<Stretch("a", maxCodeLength - 1)>>,
      <<Stretch("a", maxCodeLength)>>, <<Stretch("a", maxCodeLength + 1)>>,
      <<Stretch("a", 50000)>>,
      <<Stretch("a", maxCodeLength - 1), Stretch("b", 1)>>,
      <<Stretch("a", maxCodeLength - 1), Stretch("b", 2)>>,
      <<Stretch("a", maxCodeLength), Stretch("b", 1)>>,
      <<Stretch("a", 3), Stretch("b", maxCodeLength - 4), Stretch("c", 1), Stretch("d", 5)>>,
      <<Stretch("a", 5), TruncationMarker>>,
      <<Stretch("a", 5), TruncationNotice>>,
      <<Stretch("a", maxCodeLength - 1), TruncationMarker>>,
      <<Stretch("a", maxCodeLength), TruncationMarker>> }

PromptInputs ==
    { [fn |-> "prompt", arg |-> [codeContent |-> c, language |-> l], done |-> FALSE,
       val |-> <<>>] : c \in Codes, l \in {"", "python"} }

\* The head of evaluateTask, up to the prompt.
BuildPrompt ==
    /\ calc.fn = "prompt" /\ ~calc.done
    /\ calc' = [calc EXCEPT !.done = TRUE,
                            !.val = [code |-> Truncated(calc.arg.codeContent),
                                     prompt |-> Prompt("t", "d", Truncated(calc.arg.codeContent),
                                                       calc.arg.language)]]
    /\ UNCHANGED <<tasks, runs, norm, payVars>>

\* A request to the task-creation route, on its own.
RouteInputs ==
    {[fn |-> "POST", arg |-> body, done |-> FALSE, val |-> <<>>] : body \in CreateBodies}

Route ==
    /\ calc.fn = "POST" /\ ~calc.done
    /\ calc' = [calc EXCEPT !.done = TRUE, !.val = POST(calc.arg)]
    /\ UNCHANGED <<tasks, runs, norm, payVars>>

\* Evaluation objects with every field of the right kind, whose arrays hold
\* a number, a null, or an object in place of a string.
MixedReplies ==
    { EvaluationText(<<"7">>, ArrayText(<<<<"5">>>>), ArrayText(<<>>),
                     JSONStringify(<<"ok">>), ArrayText(<<>>)),
      EvaluationText(<<"7">>, ArrayText(<<>>), ArrayText(<<JSONStringify(<<"a">>), <<"null">>>>),
                     JSONStringify(<<"ok">>), ArrayText(<<>>)),
      EvaluationText(<<"7">>, ArrayText(<<>>), ArrayText(<<>>), JSONStringify(<<"ok">>),
                     ArrayText(<<ObjectText(Field("solution", JSONStringify(<<"x">>)))>>)) }

\* A raw output handed to evaluateTask's parse, validation and clamp, on its
\* own.
EvaluateInputs ==
    { [fn |-> "evaluate", arg |-> rawOutput, done |-> FALSE, val |-> <<>>] :
        rawOutput \in MixedReplies \cup ValidReplies \cup MalformedReplies }

Validate ==
    /\ calc.fn = "evaluate" /\ ~calc.done
    /\ calc' = [calc EXCEPT !.done = TRUE, !.val = PrimaryEvaluation(calc.arg)]
    /\ UNCHANGED <<tasks, runs, norm, payVars>>

\* Texts of up to four braces and letters, and short ones inside a fenced
\* block, with and without a letter before it.
BraceTexts(n) == UNION {[1 .. k -> {"{", "}", "x"}] : k \in 0 .. n}

ExtractInputs ==
    { [fn |-> "extract", arg |-> text, done |-> FALSE, val |-> <<>>] :
        text \in BraceTexts(4)
                    \cup {p \o <<BT, BT, BT>> \o t \o <<BT, BT, BT>> :
                            p \in {<<>>, <<"x">>}, t \in BraceTexts(2)} }

\* extractFirstJson on a text, and the candidate the callers make of it.
Extract ==
    /\ calc.fn = "extract" /\ ~calc.done
    /\ calc' = [calc EXCEPT !.done = TRUE,
                            !.val = [extracted |-> extractFirstJson(calc.arg),
                                     candidate |-> PickExtracted(calc.arg,
                                                                 extractFirstJson(calc.arg))]]
    /\ UNCHANGED <<tasks, runs, norm, payVars>>

\* The models a listing may name, and the listings of up to two of them
\* beside those of the pipeline.
ListedModels ==
    {Llama33Versatile, Llama33Instant, Gemma2, Mixtral, Llama31Versatile, Llama31Instant,
     Whisper}

PickInputs ==
    { [fn |-> "pick", arg |-> listing, done |-> FALSE, val |-> <<>>] :
        listing \in {l \in Listings : l.answered}
                       \cup {Listing(TRUE, TRUE, data) :
                               data \in UNION {[1 .. n -> ListedModels] : n \in 1 .. 2}} }

\* pickFallbackModel on the response of the listing endpoint, on its own.
Pick ==
    /\ calc.fn = "pick" /\ ~calc.done
    /\ calc' = [calc EXCEPT !.done = TRUE, !.val = pickFallbackModel(calc.arg)]
    /\ UNCHANGED <<tasks, runs, norm, payVars>>

NormIdle ==
    [pc |-> "off", clean |-> <<>>, raw |-> <<>>, via |-> "none",
     out |-> [ok |-> FALSE, val |-> JUndefined]]

\* No payment traffic: the payment tables are empty and stay so.
\* ---- The profile code of the site ----

MaxSessions == 2
SessionIds == 1 .. MaxSessions

\* The names of the sign-up metadata and of the profile form.
Names == {"", "Ann"}

\* An account before and after its sign-up.
NoAccount == [signedUp |-> FALSE, full_name |-> ""]
Account(fullName) == [signedUp |-> TRUE, full_name |-> fullName]

\* The insert as it would be without UNIQUE on user_id.
InsertProfile_NoUnique(profile, fullName) ==
    IF profile.exists THEN [profile EXCEPT !.rows = @ + 1]
    ELSE [FreeProfile EXCEPT !.full_name = fullName]

\* An insert of (user_id, full_name, avatar_url, premium_user FALSE) under
\* user_id ... UNIQUE NOT NULL: refused when the account has a row.
InsertProfile(profile, fullName) ==
    IF profile.exists THEN profile ELSE [FreeProfile EXCEPT !.full_name = fullName]

\* The trigger on_auth_user_created, in the transaction of the sign-up:
\* the insert, or the warning of EXCEPTION WHEN OTHERS and no row.
handle_new_user(u) ==
    /\ ~accounts[u].signedUp
    /\ \E fullName \in Names, raised \in BOOLEAN :
         /\ accounts' = [accounts EXCEPT ![u] = Account(fullName)]
         /\ profiles' = [profiles EXCEPT ![u] =
                           IF raised THEN @ ELSE InsertProfile(@, fullName)]
    /\ UNCHANGED <<tasks, runs, norm, calc, payments, verifies, shopVars, callers, sessions>>

\* A tab at rest.  insertError and isPremium tell how its last sequence
\* ended.
IdleSession ==
    [pc |-> "idle", user |-> "", op |-> "", insertError |-> FALSE, isPremium |-> FALSE]

\* select(...).eq('user_id', ...).single(): the error PGRST116 unless exactly
\* one row matches, and what the caller does with it.
ProfileChecked(op, u, profile) ==
    IF profile.rows # 1 THEN [IdleSession EXCEPT !.pc = "insert", !.user = u, !.op = op]
    ELSE [IdleSession EXCEPT !.op = op,
                             !.isPremium = (op = "checkPremiumStatus" /\ profile.premium_user)]

\* ensureUserProfile of the auth context, on the initial session and on
\* SIGNED_IN: the select.
ensureUserProfile(s) ==
    /\ sessions[s].pc = "idle"
    /\ \E u \in Users :
         /\ accounts[u].signedUp
         /\ sessions' = [sessions EXCEPT ![s] =
                           ProfileChecked("ensureUserProfile", u, profiles[u])]
    /\ UNCHANGED <<tasks, runs, norm, calc, payments, profiles, verifies, shopVars, callers,
                   accounts>>

\* checkPremiumStatus of the task page: the select.
checkPremiumStatus(s) ==
    /\ sessions[s].pc = "idle"
    /\ \E u \in Users :
         /\ accounts[u].signedUp
         /\ sessions' = [sessions EXCEPT ![s] =
                           ProfileChecked("checkPremiumStatus", u, profiles[u])]
    /\ UNCHANGED <<tasks, runs, norm, calc, payments, profiles, verifies, shopVars, callers,
                   accounts>>

\* The insert that follows PGRST116 in both, and if (insertError).
CreateProfile(s) ==
    /\ sessions[s].pc = "insert"
    /\ profiles' = [profiles EXCEPT ![sessions[s].user] =
                      InsertProfile(@, accounts[sessions[s].user].full_name)]
    /\ sessions' = [sessions EXCEPT ![s] =
                      [IdleSession EXCEPT !.op = sessions[s].op,
                                          !.insertError = profiles[sessions[s].user].exists]]
    /\ UNCHANGED <<tasks, runs, norm, calc, payments, verifies, shopVars, callers, accounts>>

\* fetchProfile of the profile page, on its load and after a save:
\* select('*').eq('user_id', user.id).single(), and setProfile(data) unless
\* it failed.
ProfileFetched(u, profile) ==
    IF profile.rows # 1 THEN [IdleSession EXCEPT !.op = "fetchProfile"]
    ELSE [IdleSession EXCEPT !.pc = "profile", !.user = u, !.op = "fetchProfile",
                             !.isPremium = profile.premium_user]

fetchProfile(s) ==
    /\ sessions[s].pc \in {"idle", "saved"}
    /\ \E u \in Users :
         /\ accounts[u].signedUp
         /\ sessions[s].pc = "saved" => u = sessions[s].user
         /\ sessions' = [sessions EXCEPT ![s] = ProfileFetched(u, profiles[u])]
    /\ UNCHANGED <<tasks, runs, norm, calc, payments, profiles, verifies, shopVars, callers,
                   accounts>>

\* The form's update as it would be if it wrote the whole profile it had
\* loaded back.
Saved_WholeRow(profile, fullName, loaded) ==
    IF profile.exists
    THEN [profile EXCEPT !.full_name = IF fullName = "" THEN "null" ELSE fullName,
                         !.premium_user = loaded]
    ELSE profile

\* update({ full_name: fullName || null, avatar_url: ... })
\* .eq('user_id', user.id): the rows that match, which may be none.
Saved(profile, fullName, loaded) ==
    IF profile.exists
    THEN [profile EXCEPT !.full_name = IF fullName = "" THEN "null" ELSE fullName]
    ELSE profile

\* handleSaveProfile, with a profile loaded: the update, then fetchProfile().
handleSaveProfile(s) ==
    /\ sessions[s].pc = "profile"
    /\ \E fullName \in Names :
         profiles' = [profiles EXCEPT ![sessions[s].user] =
                        Saved(@, fullName, sessions[s].isPremium)]
    /\ sessions' = [sessions EXCEPT ![s] = [@ EXCEPT !.pc = "saved", !.op = "handleSaveProfile"]]
    /\ UNCHANGED <<tasks, runs, norm, calc, payments, verifies, shopVars, callers, accounts>>

\* delete().eq('id', taskId).eq('user_id', user.id): the rows but the one that
\* matches.  Rows are known by their position, so the last one is the one
\* that can go.
Deleted(rows, taskId, userId) ==
    IF taskId = Len(rows) /\ rows[taskId].user_id = userId
    THEN SubSeq(rows, 1, taskId - 1)
    ELSE rows

\* handleDelete of the task list, once confirmed.
handleDelete(s) ==
    /\ sessions[s].pc = "idle"
    /\ tasks # <<>>
    /\ \E u \in Users :
         /\ accounts[u].signedUp
         /\ tasks' = Deleted(tasks, Len(tasks), u)
         /\ callers' = SubSeq(callers, 1, Len(tasks'))
         /\ sessions' = [sessions EXCEPT ![s] = [IdleSession EXCEPT !.op = "handleDelete"]]
    /\ UNCHANGED <<runs, norm, calc, payments, profiles, verifies, shopVars, accounts>>

\* Every account signed up, no tab open.
NoVisits ==
    /\ accounts = [u \in Users |-> Account("")]
    /\ sessions = [s \in SessionIds |-> IdleSession]

NoPayments ==
    /\ payments = <<>>
    /\ profiles = [u \in Users |-> FreeProfile]
    /\ verifies = [v \in VerifyIds |-> IdleVerify]
    /\ hooks = [h \in HookIds |-> IdleHook]
    /\ orders = [o \in OrderIds |-> IdleOrder]
    /\ clients = [c \in ClientIds |-> IdleClient]

Init ==
    /\ tasks = <<>>
    /\ runs = [r \in RunIds |-> IdleRun("none")]
    /\ norm = NormIdle
    /\ calc = CalcIdle
    /\ NoPayments
    /\ callers = <<>>
    /\ NoVisits

Next ==
    \/ CreateTask
    \/ \E r \in RunIds, t \in TaskIds : RequestEvaluation(r, t)
    \/ \E r \in RunIds : MarkProcessing(r)
    \/ \E r \in RunIds : CallPreferred(r)
    \/ \E r \in RunIds : PickFallback(r)
    \/ \E r \in RunIds : CallFallback(r)
    \/ \E r \in RunIds : Normalize(r)
    \/ \E r \in RunIds : InsightsCallPreferred(r)
    \/ \E r \in RunIds : InsightsPickFallback(r)
    \/ \E r \in RunIds : InsightsCallFallback(r)
    \/ \E r \in RunIds : InsightsParse(r)
    \/ \E r \in RunIds : StoreCompleted(r)
    \/ \E r \in RunIds : StoreFailed(r)

Spec == Init /\ [][Next]_vars

\* ------------------------------------------------------------------------
\* Payment verification on its own: one task exists, accounts with and
\* without a profile row
\* ------------------------------------------------------------------------

PaidTask == [user_id |-> "u1", titleLen |-> 1, descriptionLen |-> 1, codeLen |-> 0]

InitPay ==
    /\ tasks = POST(PaidTask).rows
    /\ runs = [r \in RunIds |-> IdleRun("none")]
    /\ norm = NormIdle
    /\ calc = CalcIdle
    /\ payments = <<>>
    /\ profiles \in [Users -> {NoProfile, FreeProfile}]
    /\ verifies = [v \in VerifyIds |-> IdleVerify]
    /\ hooks = [h \in HookIds |-> IdleHook]
    /\ orders = [o \in OrderIds |-> IdleOrder]
    /\ clients = [c \in ClientIds |-> IdleClient]
    /\ callers = <<"u1">>
    /\ NoVisits

NextPay ==
    \/ \E v \in VerifyIds : ReceiveVerify(v)
    \/ \E v \in VerifyIds : GetUser(v)
    \/ \E v \in VerifyIds : Lookup(v)
    \/ \E v \in VerifyIds : InsertPayment(v)
    \/ \E v \in VerifyIds : SetPremium(v)

SpecPay == InitPay /\ [][NextPay]_vars

\* ------------------------------------------------------------------------
\* The two entry points of a captured payment together: verifications and
\* webhook deliveries, interleaved step by step
\* ------------------------------------------------------------------------

\* One verification at a time runs beside the deliveries.
OneVerify == {v \in VerifyIds : v = 1}

NextHook ==
    \/ \E v \in OneVerify : ReceiveVerify(v)
    \/ \E v \in OneVerify : GetUser(v)
    \/ \E v \in OneVerify : Lookup(v)
    \/ \E v \in OneVerify : InsertPayment(v)
    \/ \E v \in OneVerify : SetPremium(v)
    \/ \E h \in HookIds : ReceiveHook(h)
    \/ \E h \in HookIds : HookInsert(h)
    \/ \E h \in HookIds : HookUnlock(h)

SpecHook == InitPay /\ [][NextHook]_vars

\* ------------------------------------------------------------------------
\* The checkout's two functions together: an order is created for a task
\* whose report is or is not unlocked yet, beside a verification
\* ------------------------------------------------------------------------

InitOrder ==
    /\ tasks \in {POST(PaidTask).rows, Unlocked(POST(PaidTask).rows, 1, "u1")}
    /\ runs = [r \in RunIds |-> IdleRun("none")]
    /\ norm = NormIdle
    /\ calc = CalcIdle
    /\ payments = <<>>
    /\ profiles \in [Users -> {NoProfile, FreeProfile}]
    /\ verifies = [v \in VerifyIds |-> IdleVerify]
    /\ hooks = [h \in HookIds |-> IdleHook]
    /\ orders = [o \in OrderIds |-> IdleOrder]
    /\ clients = [c \in ClientIds |-> IdleClient]
    /\ callers = <<"u1">>
    /\ NoVisits

NextOrder ==
    \/ \E o \in OrderIds : ReceiveOrder(o)
    \/ \E o \in OrderIds : OrderGetUser(o)
    \/ \E o \in OrderIds : OrderTask(o)
    \/ \E o \in OrderIds : OrderGateway(o)
    \/ \E v \in OneVerify : ReceiveVerify(v)
    \/ \E v \in OneVerify : GetUser(v)
    \/ \E v \in OneVerify : Lookup(v)
    \/ \E v \in OneVerify : InsertPayment(v)
    \/ \E v \in OneVerify : SetPremium(v)

SpecOrder == InitOrder /\ [][NextOrder]_vars

\* ------------------------------------------------------------------------
\* The checkout form on its own: browsers whose payment dialog has reported
\* a payment
\* ------------------------------------------------------------------------

NextClient ==
    \/ \E c \in ClientIds : handler(c)
    \/ \E c \in ClientIds : ClientVerify(c)
    \/ \E c \in ClientIds : ManualUpgrade(c)

SpecClient == InitPay /\ [][NextClient]_vars

\* ------------------------------------------------------------------------
\* Overlapping evaluation requests for one task: the request sent right
\* after the creation and the one of the task page's button.  One invocation
\* is followed to its end, the others as far as the in-progress mark
\* ------------------------------------------------------------------------

MaxRacers == 2

RaceIds == 1 .. MaxRacers

InitRace ==
    /\ tasks = POST(PaidTask).rows
    /\ runs = [r \in RaceIds |-> IdleRun("none")]
    /\ norm = NormIdle
    /\ calc = CalcIdle
    /\ NoPayments
    /\ callers = <<"u1">>
    /\ NoVisits

NextRace ==
    \/ \E r \in RaceIds, t \in TaskIds : RequestEvaluation(r, t)
    \/ \E r \in RaceIds : MarkProcessing(r)
    \/ \E r \in RunIds : CallPreferred(r)
    \/ \E r \in RunIds : PickFallback(r)
    \/ \E r \in RunIds : CallFallback(r)
    \/ \E r \in RunIds : Normalize(r)
    \/ \E r \in RunIds : InsightsCallPreferred(r)
    \/ \E r \in RunIds : InsightsPickFallback(r)
    \/ \E r \in RunIds : InsightsCallFallback(r)
    \/ \E r \in RunIds : InsightsParse(r)
    \/ \E r \in RunIds : StoreCompleted(r)
    \/ \E r \in RunIds : StoreFailed(r)

SpecRace == InitRace /\ [][NextRace]_vars

\* ------------------------------------------------------------------------
\* The program's functions on their own: one call, of one argument
\* ------------------------------------------------------------------------

InitCalc ==
    /\ tasks = <<>>
    /\ runs = [r \in RunIds |-> IdleRun("none")]
    /\ norm = NormIdle
    /\ NoPayments
    /\ callers = <<>>
    /\ NoVisits
    /\ calc \in PromptInputs \cup RouteInputs \cup EvaluateInputs \cup PickInputs
                  \cup ExtractInputs

NextCalc ==
    \/ BuildPrompt
    \/ Route
    \/ Validate
    \/ Pick
    \/ Extract

SpecCalc == InitCalc /\ [][NextCalc]_vars

\* ------------------------------------------------------------------------
\* The normaliser on its own: one raw output, normalised once
\* ------------------------------------------------------------------------

\* Valid evaluation objects, as the model would print them.
CleanEvaluations ==
    { EvaluationText(<<"7">>, ArrayText(<<JSONStringify(<<"a">>)>>), ArrayText(<<>>),
                     JSONStringify(<<"ok">>), ArrayText(<<JSONStringify(<<"b">>)>>)),
      EvaluationText(<<"7">>, ArrayText(<<>>), ArrayText(<<>>),
                     JSONStringify(<<"use", SP, BT, "map", BT>>), ArrayText(<<>>)),
      EvaluationText(<<"3">>, ArrayText(<<>>), ArrayText(<<JSONStringify(<<"add", SP, "}">>)>>),
                     JSONStringify(<<"ok">>), ArrayText(<<>>)) }

\* What the model puts before and after the object.
NoisePrefixes ==
    { <<>>, <<BT, BT, BT, "json", NL>>, <<BT, BT, BT, NL>>,
      <<"Here", SP, "is", SP, "it", ":", NL>>, <<BT>> }

NoiseSuffixes ==
    { <<>>, <<NL, BT, BT, BT>>, <<NL, "Hope", SP, "it", SP, "helps">>, <<BT>> }

NormInputs ==
    { [pc |-> "raw", clean |-> j, raw |-> p \o j \o x, via |-> "none",
       out |-> [ok |-> FALSE, val |-> JUndefined]] :
        j \in CleanEvaluations, p \in NoisePrefixes, x \in NoiseSuffixes }

\* evaluateTask's normalisation of the raw output (evaluate-task/ai.ts).
NormalizeRaw ==
    /\ norm.pc = "raw"
    /\ norm' = [norm EXCEPT !.pc = "done", !.via = "evaluateTask",
                            !.out = NormalizeOutput(norm.raw)]
    /\ UNCHANGED <<tasks, runs, calc, payVars>>

\* The same through parseJsonResponse (second copy of ai.ts).
ParseResponseRaw ==
    /\ norm.pc = "raw"
    /\ norm' = [norm EXCEPT !.pc = "done", !.via = "parseJsonResponse",
                            !.out = parseJsonResponse(norm.raw)]
    /\ UNCHANGED <<tasks, runs, calc, payVars>>

InitNorm ==
    /\ tasks = <<>>
    /\ runs = [r \in RunIds |-> IdleRun("none")]
    /\ norm \in NormInputs
    /\ calc = CalcIdle
    /\ NoPayments
    /\ callers = <<>>
    /\ NoVisits

NextNorm == NormalizeRaw \/ ParseResponseRaw

SpecNorm == InitNorm /\ [][NextNorm]_vars

\* ------------------------------------------------------------------------
\* The claims
\* ------------------------------------------------------------------------

\* C1: a task is created with status pending; its status leaves pending only
\* for processing and never comes back to it; completed or failed is written
\* only by a run of that task that has set it processing before, and a run
\* that has set its task processing ends by writing exactly one of the two.
C1_Lifecycle ==
    [][/\ \A t \in DOMAIN tasks' \ DOMAIN tasks : tasks'[t].evaluation_status = "pending"
       /\ \A t \in DOMAIN tasks :
            /\ tasks[t].evaluation_status = "pending"
                 => tasks'[t].evaluation_status \in {"pending", "processing"}
            /\ tasks'[t].evaluation_status = "pending"
                 => tasks[t].evaluation_status = "pending"
            /\ (tasks'[t] # tasks[t] /\ tasks'[t].evaluation_status \in {"completed", "failed"})
                 => \E r \in RunIds : /\ runs[r].task = t
                                      /\ runs[r].marked
                                      /\ runs'[r].pc = "idle"
                                      /\ runs'[r].resp = tasks'[t].evaluation_status
       /\ \A r \in RunIds :
            /\ (runs[r].marked /\ runs'[r].pc = "idle")
                 => /\ runs'[r].resp \in {"completed", "failed"}
                    /\ tasks'[runs[r].task].evaluation_status = runs'[r].resp
            /\ (runs[r].marked /\ runs'[r] # runs[r] /\ runs'[r].pc # "idle")
                 => tasks' = tasks
            /\ (runs[r].pc = "accepted" /\ runs'[r] # runs[r])
                 => /\ runs'[r].marked
                    /\ tasks'[runs[r].task].evaluation_status = "processing"
      ]_vars

\* C1, its case: a run has ended and left its task failed.
C1_RunEndedFailed ==
    \E t \in DOMAIN tasks, r \in RunIds :
        /\ tasks[t].evaluation_status = "failed"
        /\ runs[r].pc = "idle" /\ runs[r].resp = "failed"

\* C2: when the model's output parses to an object that lacks one of the five
\* fields in its type, evaluateTask throws: it holds no evaluation and does
\* not go on to the premium insights; the run then ends with the task failed
\* and its stored result untouched.
C2_MalformedIsRejected ==
    [][\A r \in RunIds :
         /\ (runs[r].pc = "normalize" /\ runs[r].rawOutput \in MalformedReplies
                /\ runs'[r] # runs[r])
              => /\ runs'[r].pc = "threw"
                 /\ runs'[r].error \in {ErrMalformed, ErrTypeError}
                 /\ runs'[r].evaluation = JUndefined
         /\ (runs[r].pc = "threw" /\ runs'[r] # runs[r])
              => /\ runs'[r].pc = "idle"
                 /\ runs'[r].resp = "failed"
                 /\ tasks'[runs[r].task].evaluation_status = "failed"
                 /\ tasks'[runs[r].task].ai_evaluation = tasks[runs[r].task].ai_evaluation
      ]_vars

\* C2, its case: evaluateTask has thrown the malformed-evaluation error.
C2_MalformedThrown ==
    \E r \in RunIds : runs[r].pc = "threw" /\ runs[r].error = ErrMalformed

\* C3: the score of the evaluation evaluateTask holds is the model's score s
\* brought into 1..10: 1 for s < 1, 10 for s > 10, s otherwise.  (The feedback
\* of each valid reply names the score the model gave.)
C3_ScoreIsClamped ==
    \A r \in RunIds :
        runs[r].evaluation.t = "object" =>
            LET score == Prop(runs[r].evaluation, <<"score">>)
                feedback == Prop(runs[r].evaluation, <<"feedback">>)
            IN  /\ score.t = "number"
                /\ score.n \in 1 .. 10
                /\ \E p \in { <<"seven", 7>>, <<"one", 1>>, <<"ten", 10>>, <<"fifteen", 15>>,
                              <<"zero", 0>>, <<"minus-three", -3>> } :
                       /\ feedback.s = <<p[1]>>
                       /\ score.n = IF p[2] < 1 THEN 1 ELSE IF p[2] > 10 THEN 10 ELSE p[2]

\* C3, its case: evaluateTask returns 10 for a model score of 15.
C3_FifteenBecomesTen ==
    \E r \in RunIds :
        /\ runs[r].pc = "returned"
        /\ Prop(runs[r].evaluation, <<"feedback">>).s = <<"fifteen">>
        /\ Prop(runs[r].evaluation, <<"score">>).n = 10

\* C4: every noisy wrapping of a valid evaluation object normalises to the
\* object that parsing the clean text gives.
C4_NoiseIsRecovered ==
    norm.pc = "done" => norm.out = JSONParse(norm.clean)

\* C5: the preferred models are called in list order, a later one only after
\* every earlier call has failed; as the claim has it, a call failed only by a
\* response with a non-success status.
C5_NextOnlyAfterHttpError ==
    \A r \in RunIds :
        /\ \A i \in DOMAIN runs[r].log :
             runs[r].log[i].kind = "preferred"
                => /\ runs[r].log[i].model = preferred[i]
                   /\ \A j \in 1 .. (i - 1) : runs[r].log[j].threw
        /\ (runs[r].pc = "preferred" /\ runs[r].log # <<>>)
             => /\ runs[r].res # <<>>
                /\ runs[r].res[1].answered
                /\ ~runs[r].res[1].ok

\* C5, amended: the preferred models are called in list order, a later one
\* only after every earlier call has failed, by a non-success status or by a
\* request that got no response; once a call has returned, no later preferred
\* model is called.
C5_NextOnlyAfterFailure ==
    \A r \in RunIds :
        /\ \A i \in DOMAIN runs[r].log :
             runs[r].log[i].kind = "preferred"
                => /\ runs[r].log[i].model = preferred[i]
                   /\ \A j \in 1 .. (i - 1) :
                        runs[r].log[j].kind = "preferred" /\ runs[r].log[j].threw
        /\ (runs[r].pc = "preferred" /\ runs[r].log # <<>>)
             => /\ runs[r].idx = Len(runs[r].log) + 1
                /\ runs[r].log[Len(runs[r].log)].threw
                /\ runs[r].res # <<>>
                /\ (~runs[r].res[1].answered \/ ~runs[r].res[1].ok)

\* C5, its case: the second preferred model is next after a request that got
\* no response.
C5_NextAfterNetworkFailure ==
    \E r \in RunIds :
        runs[r].pc = "preferred" /\ runs[r].idx = 2 /\ runs[r].res = <<NetworkFailure>>

\* C6: after a preferred model answered with a success status and a body that
\* is empty or no JSON, the call counts as failed, the body is not the output,
\* and the next preferred model, if there is one, is tried.
C6_UnusableBodyIsSkipped ==
    \A r \in RunIds :
        (/\ runs[r].log # <<>>
         /\ runs[r].log[Len(runs[r].log)].kind = "preferred"
         /\ runs[r].res # <<>>
         /\ runs[r].res[1] \in {EmptyResponse, HtmlResponse})
            => /\ runs[r].log[Len(runs[r].log)].threw
               /\ runs[r].pc # "threw"
               /\ (runs[r].res[1].body # <<>> => runs[r].rawOutput # runs[r].res[1].body)
               /\ Len(runs[r].log) < Len(preferred)
                    => runs[r].pc = "preferred" /\ runs[r].idx = Len(runs[r].log) + 1

\* C6, amended: a success status with a body that is no JSON ends the loop
\* over the preferred models with the body as the output, which then fails
\* to parse (evaluateTask throws the invalid-JSON error); a success status
\* with an empty body ends the loop too, with no output, and the fallback
\* model is looked up.  Neither counts as a failed call and after neither is
\* the next preferred model tried.
C6_UnusableBodyEndsLoop ==
    \A r \in RunIds :
        (/\ runs[r].log # <<>>
         /\ runs[r].log[Len(runs[r].log)].kind = "preferred"
         /\ runs[r].res # <<>>)
            => /\ runs[r].res[1] = HtmlResponse
                    => /\ ~runs[r].log[Len(runs[r].log)].threw
                       /\ \/ runs[r].pc = "normalize" /\ runs[r].rawOutput = HtmlResponse.body
                          \/ runs[r].pc = "threw" /\ runs[r].error = ErrInvalidJson
               /\ runs[r].res[1] = EmptyResponse
                    => /\ ~runs[r].log[Len(runs[r].log)].threw
                       /\ runs[r].pc = "fallback"
                       /\ runs[r].lists = 0
                       /\ runs[r].rawOutput = <<>>

\* C6, its case: the first preferred model answered with a body that is no
\* JSON, and the body is the output about to be normalised.
C6_HtmlBodyIsOutput ==
    \E r \in RunIds :
        /\ runs[r].pc = "normalize"
        /\ Len(runs[r].log) = 1
        /\ runs[r].res = <<HtmlResponse>>
        /\ runs[r].rawOutput = HtmlResponse.body

\* C7: the primary evaluation of a run makes at most one call per preferred
\* model and one more; the listing is asked at most once, and exactly once
\* when every preferred model has failed; the one further call goes to the
\* model the listing gave and is the last; a run is normalised only with an
\* output, and a fallback call without output ends in the no-output error.
C7_BoundedCalls ==
    \A r \in RunIds :
        LET run == runs[r]
            n == Len(runs[r].log)
        IN  /\ run.lists <= 1
            /\ n <= Len(preferred) + 1
            /\ \A i \in 1 .. n :
                 run.log[i].kind = "fallback"
                    => i = n /\ run.lists = 1 /\ run.log[i].model = run.fallback
            /\ run.pc = "fallback" => run.lists = 0
            /\ run.pc = "fallbackCall"
                 => run.lists = 1 /\ \A i \in 1 .. n : run.log[i].kind = "preferred"
            /\ run.pc = "normalize" => run.rawOutput # <<>> /\ ~run.log[n].threw
            /\ (n >= Len(preferred) /\ \A i \in 1 .. Len(preferred) : run.log[i].threw)
                 => run.pc = "fallback" \/ run.lists = 1
            /\ (n >= 1 /\ run.log[n].kind = "fallback"
                    /\ (run.log[n].threw \/ run.res = <<EmptyResponse>>))
                 => run.pc = "threw" /\ run.error = ErrNoOutput
            /\ (run.pc = "threw" /\ run.error \in {ErrNoModel, ErrFetch})
                 => run.lists = 1 /\ \A i \in 1 .. n : run.log[i].kind = "preferred"

\* C7, its case: every preferred model and the fallback model were called,
\* none gave output, and evaluateTask has thrown.
C7_AllCallsFailed ==
    \E r \in RunIds :
        /\ Len(runs[r].log) = Len(preferred) + 1
        /\ \A i \in DOMAIN runs[r].log : runs[r].log[i].threw
        /\ runs[r].lists = 1
        /\ runs[r].pc = "threw" /\ runs[r].error = ErrNoOutput

\* C8: when generatePremiumInsights fails (no model gives output, no fallback
\* model, the fallback call fails, or the text does not parse), evaluateTask
\* returns the evaluation it held, without a premiumInsights field, and the
\* run then ends with the task completed and that evaluation stored.
C8_InsightsFailureKeepsEvaluation ==
    [][\A r \in RunIds :
         /\ (/\ \/ runs[r].pc \in {"insightsFallback", "insightsFallbackCall"}
                \/ runs[r].pc = "insightsParse" /\ runs[r].insightsRaw = <<"Sorry">>
             /\ runs'[r].pc = "returned")
              => /\ runs'[r].evaluation = runs[r].evaluation
                 /\ DOMAIN runs'[r].evaluation.o =
                        { <<"score">>, <<"strengths">>, <<"improvements">>,
                          <<"feedback">>, <<"suggestions">> }
         /\ (runs[r].pc = "insightsParse" /\ runs[r].insightsRaw = <<"Sorry">>
                /\ runs'[r] # runs[r])
              => runs'[r].pc = "returned"
         /\ (runs[r].pc = "returned" /\ runs'[r] # runs[r])
              => /\ runs'[r].pc = "idle"
                 /\ runs'[r].resp = "completed"
                 /\ tasks'[runs[r].task].evaluation_status = "completed"
                 /\ tasks'[runs[r].task].ai_evaluation = runs[r].evaluation
      ]_vars

\* C8, its case: a task is completed with a result that has no
\* premiumInsights field.
C8_CompletedWithoutInsights ==
    \E t \in DOMAIN tasks :
        /\ tasks[t].evaluation_status = "completed"
        /\ tasks[t].ai_evaluation.t = "object"
        /\ <<"premiumInsights">> \notin DOMAIN tasks[t].ai_evaluation.o

\* C9: a completed task has a stored result with the five fields in their
\* types and a score in 1..10; the result is written only together with the
\* status completed, as the evaluation of a run that returned; a step that
\* sets the status failed leaves the stored result as it was.
C9_CompletedHasValidResult ==
    /\ [](\A t \in DOMAIN tasks :
            tasks[t].evaluation_status = "completed"
               => /\ tasks[t].ai_evaluation.t = "object"
                  /\ Prop(tasks[t].ai_evaluation, <<"score">>).t = "number"
                  /\ Prop(tasks[t].ai_evaluation, <<"score">>).n \in 1 .. 10
                  /\ Prop(tasks[t].ai_evaluation, <<"strengths">>).t = "array"
                  /\ Prop(tasks[t].ai_evaluation, <<"improvements">>).t = "array"
                  /\ Prop(tasks[t].ai_evaluation, <<"feedback">>).t = "string"
                  /\ Prop(tasks[t].ai_evaluation, <<"suggestions">>).t = "array")
    /\ [][\A t \in DOMAIN tasks :
            /\ (tasks'[t] # tasks[t] /\ tasks'[t].evaluation_status = "completed")
                 => \E r \in RunIds : /\ runs[r].pc = "returned"
                                      /\ runs[r].task = t
                                      /\ tasks'[t].ai_evaluation = runs[r].evaluation
            /\ tasks'[t].ai_evaluation # tasks[t].ai_evaluation
                 => tasks'[t].evaluation_status = "completed"
            /\ (tasks'[t] # tasks[t] /\ tasks'[t].evaluation_status = "failed")
                 => tasks'[t].ai_evaluation = tasks[t].ai_evaluation
         ]_vars

\* C9, its case: a task is completed with the clamped score of a reply that
\* gave 15.
C9_CompletedWithClampedScore ==
    \E t \in DOMAIN tasks :
        /\ tasks[t].evaluation_status = "completed"
        /\ Prop(tasks[t].ai_evaluation, <<"feedback">>).s = <<"fifteen">>
        /\ Prop(tasks[t].ai_evaluation, <<"score">>).n = 10

\* C10: a verification whose lookup came back without a success status, or
\* with a payment status other than captured, is answered with a failure and
\* has inserted no payment row and set no premium flag; the step that looks
\* the payment up and answers leaves the payments and the profiles as they
\* were.
C10_RejectedLookupChangesNothing ==
    /\ [](\A v \in VerifyIds :
            (/\ verifies[v].lookup # <<>>
             /\ (~verifies[v].lookup[1].ok \/ verifies[v].lookup[1].status # "captured"))
               => /\ verifies[v].pc = "idle"
                  /\ verifies[v].resp \in {400, 500}
                  /\ ~verifies[v].inserted
                  /\ ~verifies[v].flipped)
    /\ [][\A v \in VerifyIds :
            (verifies[v].pc = "lookup" /\ verifies'[v].pc = "idle")
               => payments' = payments /\ profiles' = profiles
         ]_vars

\* C10, its case: the gateway said the payment failed, and the answer is 400.
C10_FailedPaymentRefused ==
    \E v \in VerifyIds :
        /\ verifies[v].lookup = <<LookupResponse(TRUE, TRUE, "failed")>>
        /\ verifies[v].pc = "idle"
        /\ verifies[v].resp = 400

\* C11: the payments table never holds two rows with the same payment
\* identifier, whatever the order of the steps of verifications and webhook
\* deliveries.
C11_PaymentIdIsUnique ==
    \A i, j \in DOMAIN payments :
        payments[i].stripe_payment_id = payments[j].stripe_payment_id => i = j

\* C11, its case: a delivery for a payment that is already recorded was
\* refused by the table.
C11_ReplayRefused ==
    \E h \in HookIds :
        /\ hooks[h].paymentError = "duplicate key"
        /\ ~hooks[h].inserted
        /\ payments # <<>>

\* C12: an insert that the table refuses because the payment identifier is
\* already there is not answered with an error status, by the verification
\* and by the webhook.
C12_DuplicateIsNotAnError ==
    [][/\ \A v \in VerifyIds :
            (/\ verifies[v].pc = "insert"
             /\ \E i \in DOMAIN payments :
                    payments[i].stripe_payment_id = verifies[v].razorpay_payment_id
             /\ verifies'[v] # verifies[v])
               => verifies'[v].resp < 400
       /\ \A h \in HookIds :
            (/\ hooks[h].pc = "insert"
             /\ \E i \in DOMAIN payments : payments[i].stripe_payment_id = hooks[h].id
             /\ hooks'[h] # hooks[h])
               => hooks'[h].resp < 400
      ]_vars

\* C13: when the webhook ends a payment.captured delivery with 200, the
\* profile of the user the payment belongs to has premium_user true and a
\* premium_since.
C13_WebhookGrantsPremium ==
    [][\A h \in HookIds :
         (hooks[h].pc = "unlock" /\ hooks'[h].pc = "idle" /\ hooks'[h].resp = 200)
            => /\ profiles'[hooks[h].userId].premium_user
               /\ profiles'[hooks[h].userId].premium_since
      ]_vars

\* C14: when the verification answers 200, a completed payment row with the
\* payment identifier exists and the caller has a profile row with
\* premium_user true.
C14_SuccessMeansPremium ==
    [][\A v \in VerifyIds :
         (verifies[v].pc = "premium" /\ verifies'[v].pc = "idle" /\ verifies'[v].resp = 200)
            => /\ \E i \in DOMAIN payments' :
                    /\ payments'[i].stripe_payment_id = verifies[v].razorpay_payment_id
                    /\ payments'[i].status = "completed"
               /\ profiles'[verifies[v].user].exists
               /\ profiles'[verifies[v].user].premium_user
      ]_vars

\* C15: a row comes into the payments table only by the insert of a
\* verification whose lookup at the gateway said captured.
C15_RowsAreConfirmed ==
    [][payments' # payments
         => \E v \in VerifyIds :
                /\ verifies[v].pc = "insert"
                /\ verifies[v].lookup # <<>>
                /\ verifies[v].lookup[1].ok
                /\ verifies[v].lookup[1].status = "captured"
                /\ verifies'[v].inserted
      ]_vars

\* C17: a verification whose taskId names no task, or a task of another
\* account than the caller's, changes neither the payments nor the profiles
\* and is not answered 200.
C17_ForeignTaskIsRejected ==
    [][\A v \in VerifyIds :
         (/\ verifies[v].pc \in {"insert", "premium"}
          /\ \/ verifies[v].taskId \notin DOMAIN tasks
             \/ tasks[verifies[v].taskId].user_id # verifies[v].user
          /\ verifies'[v] # verifies[v])
            => /\ payments' = payments
               /\ profiles' = profiles
               /\ verifies'[v].pc = "idle"
               /\ verifies'[v].resp >= 400
      ]_vars

\* C18: every task row belongs to the account whose session sent the request
\* that created it.
C18_TaskIsTheCallersOwn ==
    \A t \in DOMAIN tasks : tasks[t].user_id = callers[t]

C20_OrderOnlyForOwnLockedTask ==
    [][\A o \in OrderIds :
         /\ (orders[o].pc = "task" /\ orders'[o] # orders[o])
               => IF /\ orders[o].taskId \in DOMAIN tasks
                     /\ tasks[orders[o].taskId].user_id = orders[o].user
                     /\ ~tasks[orders[o].taskId].report_unlocked
                  THEN orders'[o].pc = "gateway" /\ ~orders'[o].called
                  ELSE /\ orders'[o].pc = "idle"
                       /\ orders'[o].resp = 400
                       /\ ~orders'[o].called
         /\ (orders'[o].called /\ ~orders[o].called) => orders[o].pc = "gateway"
         /\ (orders'[o].pc = "gateway" /\ orders[o].pc # "gateway") => orders[o].pc = "task"
      ]_vars

\* C20, its case: a request for a task whose report is already unlocked was
\* answered 400 and the gateway was not called.
C20_UnlockedTaskRefused ==
    \E o \in OrderIds :
        /\ orders[o].pc = "idle" /\ orders[o].asked /\ ~orders[o].called
        /\ orders[o].resp = 400
        /\ \A t \in DOMAIN tasks : tasks[t].report_unlocked

\* C19: the browser sends the manual update of user_profiles exactly when
\* the verification's answer was read and parsed as JSON and its status is
\* not a success or its success field is not true; after a network error, an
\* unreadable body or a body that is not JSON it sends no update.
C19_ManualOnlyAfterParsedFailure ==
    \A c \in ClientIds :
        (clients[c].pc = "idle" /\ clients[c].reply # <<>>)
           => (clients[c].attempted
                 <=> /\ clients[c].reply[1].answered
                     /\ clients[c].reply[1].readable
                     /\ clients[c].reply[1].json
                     /\ ~(clients[c].reply[1].ok /\ clients[c].reply[1].success))

\* C19, its case: a verification answered with an error status and a JSON
\* body, and the browser made the user premium by itself.
C19_BypassedAfterHttpError ==
    \E c \in ClientIds, u \in Users :
        /\ clients[c].pc = "idle" /\ clients[c].done = "bypassed" /\ clients[c].attempted
        /\ clients[c].reply # <<>>
        /\ clients[c].reply[1].json /\ ~clients[c].reply[1].ok
        /\ profiles[u].premium_user

\* C19 as first stated: after every failed verification, a network error and
\* a body that is not JSON included, the browser sends the manual update.
C19_ManualAfterEveryFailure ==
    \A c \in ClientIds :
        (/\ clients[c].pc = "idle"
         /\ clients[c].reply # <<>>
         /\ ~(/\ clients[c].reply[1].answered /\ clients[c].reply[1].readable
              /\ clients[c].reply[1].json
              /\ clients[c].reply[1].ok /\ clients[c].reply[1].success))
           => clients[c].attempted

C22_InProgressIsRefused ==
    [][\A r \in RaceIds :
         /\ (runs[r].pc = "idle" /\ runs'[r].pc = "accepted")
               => tasks[runs'[r].task].evaluation_status # "processing"
         /\ (/\ runs[r].pc = "idle" /\ runs'[r] # runs[r]
             /\ runs'[r].resp # "not-found"
             /\ \A t \in DOMAIN tasks : tasks[t].evaluation_status = "processing")
               => /\ runs'[r].pc = "idle"
                  /\ runs'[r].resp = "already-processing"
                  /\ tasks' = tasks
      ]_vars

\* C22, its case: two requests for the same task were both accepted before
\* either had set the status, and both invocations run the pipeline.
C22_TwoRunsInFlight ==
    \E r1, r2 \in RaceIds :
        /\ r1 # r2
        /\ runs[r1].marked /\ runs[r2].marked
        /\ runs[r1].pc \notin {"idle", "accepted"}
        /\ runs[r2].pc \notin {"idle", "accepted"}
        /\ runs[r1].task = runs[r2].task

\* C22 as first stated: at most one invocation per task runs the pipeline at
\* any time.
C22_OneRunPerTask ==
    \A r1, r2 \in RaceIds :
        (/\ runs[r1].pc \notin {"idle", "accepted"}
         /\ runs[r2].pc \notin {"idle", "accepted"}
         /\ runs[r1].task = runs[r2].task)
           => r1 = r2

\* C23: code longer than the ceiling goes into the prompt as its first
\* maxCodeLength characters followed by the marker, with the notice; code up
\* to the ceiling goes in unchanged, with neither marker nor notice.
C23_TruncatedAtCeiling ==
    (calc.fn = "prompt" /\ calc.done) =>
        IF Length(calc.arg.codeContent) > maxCodeLength
        THEN /\ Len(calc.val.code.processedCode) > 0
             /\ calc.val.code.processedCode[Len(calc.val.code.processedCode)] = TruncationMarker
             /\ Length(SubSeq(calc.val.code.processedCode, 1,
                              Len(calc.val.code.processedCode) - 1)) = maxCodeLength
             /\ \A i \in {1, 2, 3, 4, maxCodeLength - 1, maxCodeLength} :
                    CharAt(calc.val.code.processedCode, i) = CharAt(calc.arg.codeContent, i)
             /\ \E i \in DOMAIN calc.val.prompt : calc.val.prompt[i] = TruncationNotice
             /\ \E i \in DOMAIN calc.val.prompt :
                    SubSeq(calc.val.prompt, i, i + Len(calc.val.code.processedCode) - 1)
                        = calc.val.code.processedCode
        ELSE /\ calc.val.code.processedCode = calc.arg.codeContent
             /\ ~calc.val.code.wasTruncated
             /\ \E i \in DOMAIN calc.val.prompt :
                    SubSeq(calc.val.prompt, i, i + Len(calc.arg.codeContent) - 1)
                        = calc.arg.codeContent
             /\ \A mark \in {TruncationMarker, TruncationNotice} :
                    Cardinality({i \in DOMAIN calc.val.prompt : calc.val.prompt[i] = mark})
                      = Cardinality({i \in DOMAIN calc.arg.codeContent :
                                        calc.arg.codeContent[i] = mark})

\* C23, its case: code of 50000 characters went into the prompt cut to the
\* ceiling, and code of exactly the ceiling's length went in whole.
C23_LongCodeCut ==
    /\ calc.fn = "prompt" /\ calc.done
    /\ Length(calc.arg.codeContent) = 50000
    /\ calc.val.code.wasTruncated
    /\ Length(calc.val.code.processedCode) = maxCodeLength + 1

\* C24: a request that has its user id, title and description and whose
\* three lengths add up to more than 500000 is answered 413 and inserts no
\* row; one that adds up to exactly 500000 is not answered 413; one that
\* lacks a required field is answered 400, whatever its size.
C24_OversizeIs413 ==
    (calc.fn = "POST" /\ calc.done) =>
        /\ (/\ calc.arg.user_id # "" /\ calc.arg.titleLen > 0 /\ calc.arg.descriptionLen > 0
            /\ calc.arg.titleLen + calc.arg.descriptionLen + calc.arg.codeLen > 500000)
              => calc.val.status = 413 /\ calc.val.rows = <<>>
        /\ calc.arg.titleLen + calc.arg.descriptionLen + calc.arg.codeLen = 500000
              => calc.val.status # 413
        /\ (calc.arg.user_id = "" \/ calc.arg.titleLen = 0 \/ calc.arg.descriptionLen = 0)
              => calc.val.status = 400 /\ calc.val.rows = <<>>
        /\ calc.val.status # 200 => calc.val.rows = <<>>

\* C24, its case: a request of 500001 characters was answered 413 and one of
\* exactly 500000 is possible too.
C24_OneTooManyRefused ==
    /\ calc.fn = "POST" /\ calc.done
    /\ calc.arg.titleLen + calc.arg.descriptionLen + calc.arg.codeLen = 500001
    /\ calc.val.status = 413
    /\ calc.val.rows = <<>>

\* C24 as first stated: every request whose three lengths add up to more
\* than 500000 is answered 413.
C24_EveryOversizeIs413 ==
    (/\ calc.fn = "POST" /\ calc.done
     /\ calc.arg.titleLen + calc.arg.descriptionLen + calc.arg.codeLen > 500000)
        => calc.val.status = 413

\* C25: a parsed evaluation object whose strengths, improvements or
\* suggestions array holds an element that is not a string makes evaluateTask
\* raise the malformed-evaluation error.
C25_NonStringElementIsMalformed ==
    (/\ calc.fn = "evaluate" /\ calc.done
     /\ NormalizeOutput(calc.arg).ok
     /\ \E key \in {<<"strengths">>, <<"improvements">>, <<"suggestions">>} :
          /\ Prop(NormalizeOutput(calc.arg).val, key).t = "array"
          /\ \E i \in DOMAIN Prop(NormalizeOutput(calc.arg).val, key).a :
                 Prop(NormalizeOutput(calc.arg).val, key).a[i].t # "string")
        => calc.val.error = ErrMalformed

\* ---- The profile rows: the sign-ups beside the tabs ----

InitProfile ==
    /\ tasks = <<>>
    /\ runs = [r \in RunIds |-> IdleRun("none")]
    /\ norm = NormIdle
    /\ calc = CalcIdle
    /\ payments = <<>>
    /\ profiles = [u \in Users |-> NoProfile]
    /\ verifies = [v \in VerifyIds |-> IdleVerify]
    /\ hooks = [h \in HookIds |-> IdleHook]
    /\ orders = [o \in OrderIds |-> IdleOrder]
    /\ clients = [c \in ClientIds |-> IdleClient]
    /\ callers = <<>>
    /\ accounts = [u \in Users |-> NoAccount]
    /\ sessions = [s \in SessionIds |-> IdleSession]

NextProfile ==
    \/ \E u \in Users : handle_new_user(u)
    \/ \E s \in SessionIds : ensureUserProfile(s)
    \/ \E s \in SessionIds : checkPremiumStatus(s)
    \/ \E s \in SessionIds : CreateProfile(s)

SpecProfile == InitProfile /\ [][NextProfile]_vars

\* ---- The premium flag under everything that writes the store ----

\* One tab and one browser at the checkout beside the functions.  Of these
\* four parties at most MaxParties act in a run, each as often as it likes:
\* a party that has not acted yet begins only while fewer have.
MaxParties == 2
OneSession == {s \in SessionIds : s = 1}
OneClient == {c \in ClientIds : c = 1}

Engaged ==
    Cardinality({s \in OneSession : sessions[s] # IdleSession})
      + Cardinality({c \in OneClient : clients[c] # IdleClient})
      + Cardinality({v \in OneVerify : verifies[v] # IdleVerify})
      + Cardinality({h \in HookIds : hooks[h] # IdleHook})

MayBegin(slot, rest) == slot # rest \/ Engaged < MaxParties

NextPremium ==
    \/ \E s \in OneSession : MayBegin(sessions[s], IdleSession) /\ ensureUserProfile(s)
    \/ \E s \in OneSession : MayBegin(sessions[s], IdleSession) /\ checkPremiumStatus(s)
    \/ \E s \in OneSession : CreateProfile(s)
    \/ \E s \in OneSession : MayBegin(sessions[s], IdleSession) /\ fetchProfile(s)
    \/ \E s \in OneSession : handleSaveProfile(s)
    \/ \E s \in OneSession : MayBegin(sessions[s], IdleSession) /\ handleDelete(s)
    \/ \E c \in OneClient : MayBegin(clients[c], IdleClient) /\ handler(c)
    \/ \E c \in OneClient : ClientVerify(c)
    \/ \E c \in OneClient : ManualUpgrade(c)
    \/ \E v \in OneVerify : MayBegin(verifies[v], IdleVerify) /\ ReceiveVerify(v)
    \/ \E v \in OneVerify : GetUser(v)
    \/ \E v \in OneVerify : Lookup(v)
    \/ \E v \in OneVerify : InsertPayment(v)
    \/ \E v \in OneVerify : SetPremium(v)
    \/ \E h \in HookIds : MayBegin(hooks[h], IdleHook) /\ ReceiveHook(h)
    \/ \E h \in HookIds : HookInsert(h)
    \/ \E h \in HookIds : HookUnlock(h)

SpecPremium == InitPay /\ [][NextPremium]_vars

\* C28: whatever the order of the sign-up trigger and of the tabs' selects
\* and inserts, no account has more than one row of user_profiles.
C28_OneProfilePerAccount == \A u \in Users : profiles[u].rows <= 1

\* C28, its case: two tabs found no row of the same account, one inserted it
\* and the insert of the other was refused.
C28_SecondInsertRefused ==
    \E s \in SessionIds :
        /\ sessions[s].insertError
        /\ \E u \in Users : profiles[u].rows = 1 /\ accounts[u].signedUp

C27_BestFamilyPicked ==
    (/\ calc.fn = "pick" /\ calc.done
     /\ calc.arg.ok /\ calc.arg.isList)
        => \A i \in DOMAIN calc.arg.data :
             (\E k \in DOMAIN knownWorkingModels :
                  Includes(calc.arg.data[i], knownWorkingModels[k]))
               => \/ Includes(calc.val, <<"llama-3.3">>)
                  \/ /\ ~Includes(calc.arg.data[i], <<"llama-3.3">>)
                     /\ \/ Includes(calc.val, <<"gemma2">>)
                        \/ /\ ~Includes(calc.arg.data[i], <<"gemma2">>)
                           /\ \/ Includes(calc.val, <<"mixtral">>)
                              \/ ~Includes(calc.arg.data[i], <<"mixtral">>)

\* The positions of a text, from its first opening brace on, after which
\* as many braces have closed as have opened.
ZeroDepths(text) ==
    {j \in DOMAIN text :
        /\ \E i \in 1 .. j : text[i] = "{"
        /\ \A i \in 1 .. j :
             (text[i] = "{" /\ \A h \in 1 .. i - 1 : text[h] # "{")
               => Cardinality({q \in i .. j : text[q] = "{"})
                    = Cardinality({q \in i .. j : text[q] = "}"})}

\* C29: extractFirstJson returns null exactly when the text has no opening
\* brace or the depth never returns to zero; otherwise it returns the text
\* from the first opening brace through the first position where the depth
\* is zero again, which starts with an opening brace, ends with a closing one
\* and has as many of the one as of the other; and the candidate is the
\* extracted text whenever there is one, the fenced block being left alone.
C29_FirstBalancedObject ==
    (calc.fn = "extract" /\ calc.done) =>
        /\ ~calc.val.extracted.found <=> ZeroDepths(calc.arg) = {}
        /\ calc.val.extracted.found =>
             /\ \E b, e \in DOMAIN calc.arg :
                  /\ calc.arg[b] = "{" /\ \A h \in 1 .. b - 1 : calc.arg[h] # "{"
                  /\ e \in ZeroDepths(calc.arg) /\ \A j \in ZeroDepths(calc.arg) : e <= j
                  /\ calc.val.extracted.text = SubSeq(calc.arg, b, e)
             /\ Head(calc.val.extracted.text) = "{"
             /\ calc.val.extracted.text[Len(calc.val.extracted.text)] = "}"
             /\ Cardinality({j \in DOMAIN calc.val.extracted.text :
                                 calc.val.extracted.text[j] = "{"})
                  = Cardinality({j \in DOMAIN calc.val.extracted.text :
                                    calc.val.extracted.text[j] = "}"})
             /\ calc.val.candidate = calc.val.extracted.text

\* C29, its case: a text with a fenced block and a balanced object in it,
\* of which the object alone is taken.
C29_ObjectTakenFromFencedText ==
    /\ calc.fn = "extract" /\ calc.done
    /\ \E i \in DOMAIN calc.arg : FenceAt(calc.arg, i)
    /\ calc.val.extracted.found
    /\ calc.val.candidate = <<"{", "}">>

\* C30: no step takes the premium flag of an account from true to false:
\* not a profile edit, a profile creation, a verification, a webhook
\* delivery, the browser's own update or a task deletion.
C30_PremiumIsNeverRevoked ==
    [][\A u \in Users : profiles[u].premium_user => profiles'[u].premium_user]_vars

\* C30, its case: a tab loaded the profile of a premium account and then
\* saved the form, and the account is premium still.
C30_EditedWhilePremium ==
    \E s \in SessionIds :
        /\ sessions[s].pc = "saved" /\ sessions[s].isPremium
        /\ profiles[sessions[s].user].premium_user
        /\ profiles[sessions[s].user].full_name = "Ann"

====
